---- MODULE Spec2Model ----
(***************************************************************************)
(* pulseWatch: the ingest -> fan-out -> parser -> analysis engine ->       *)
(* dashboard pipeline of cmd/pulsewatch and internal/analysis.             *)
(*                                                                         *)
(* Time is counted in minutes (the tick of the engine's one-second ticker  *)
(* is an event of its own, TickFire).  Latencies are counted in            *)
(* microseconds, so that Duration.Milliseconds() truncates.  A raw line is *)
(* the index of the line in the input; its text is source[index].          *)
(***************************************************************************)
EXTENDS Integers, Sequences, FiniteSets, TLC

\* ---------------------------------------------------------------- bounds
MaxLines == 2        \* lines of the input
LinesCap == 1        \* capacity of the file ingest's buffered channel, scaled down from 1000
MaxAdvance == 1      \* number of clock jumps
MaxTicks == 31       \* ticks of a run of the ticker on given samples
StartNow == 200      \* wall clock (minutes) when the pipeline starts

\* ------------------------------------------------------ program constants
defaultWindow == 5            \* 5 * time.Minute
pruneInterval == 60           \* 1 * time.Hour
maxDBAge == 10080             \* 7 * 24 * time.Hour
maxMetricsHistory == 20
maxLogEntries == 1000
Window1m == 1
Window5m == 5
Window1h == 60

windows == [w \in {"1m", "5m", "1h"} |->
              CASE w = "1m" -> Window1m [] w = "5m" -> Window5m [] OTHER -> Window1h]

NoTs == 0 - 1
NoLine == 0

\* --------------------------------------------------------------- helpers
RECURSIVE Fact(_)
Fact(n) == IF n <= 1 THEN 1 ELSE n * Fact(n - 1)

\* Fixed-point scale of an error rate: 100 * errors / total is kept exactly
\* as the integer 100 * errors * ErrScale / total for every total <= MaxLines.
ErrScale == Fact(MaxLines)

RECURSIVE SumSeq(_)
SumSeq(s) == IF s = <<>> THEN 0 ELSE Head(s) + SumSeq(Tail(s))

\* The value of F at x, with x evaluated once.
With(x, F(_)) == CHOOSE r \in {F(v) : v \in {x}} : TRUE

\* Stable ascending sort of s by the keys k (a sequence as long as s):
\* the element at position i goes to 1 + the number of elements before it.
SortByKeys(s, k) ==
  [p \in 1..Len(s) |->
     s[CHOOSE i \in 1..Len(s) :
         p = 1 + Cardinality({j \in 1..Len(s) :
                                k[j] < k[i] \/ (k[j] = k[i] /\ j < i)})]]

\* sort.Float64s
SortInts(s) == With(s, LAMBDA v : SortByKeys(v, v))

\* ORDER BY timestamp ASC
SortRows(s) ==
  With(s, LAMBDA v : SortByKeys(v, [i \in 1..Len(v) |-> v[i].timestamp]))

\* Keep the last n elements (append, then drop the head when over n).
\* A history that is never cut.
AppendUncapped(h, x, n) == Append(h, x)

AppendCapped(h, x, n) ==
  LET a == Append(h, x) IN IF Len(a) > n THEN Tail(a) ELSE a

\* ----------------------------------------------------------- input lines
\* The texts a line can have.
\*   fmt       "json": a key->value object; "nginx": a line of the combined
\*             access-log pattern; "plain": any other text
\*   ts        the value of the timestamp key (NoTs: no such key)
\*   status    the status key, or the status field of an access-log line
\*   latency   the latency key: milliseconds, written in thousandths
\*   levelKind the JSON type of the level key's value ("absent": no such key)
\*   level     the text of that value
\*   endpoint  the endpoint key, or the path of an access-log line
\*   words     the lower-cased words of the text
\*   matches   the message matches the Filter of the custom metric
Line(fmt, ts, status, latency, levelKind, level, endpoint, words, matches) ==
  [fmt |-> fmt, ts |-> ts, status |-> status, latency |-> latency,
   levelKind |-> levelKind, level |-> level, endpoint |-> endpoint,
   words |-> words, matches |-> matches]

PlainLine == Line("plain", NoTs, 0, 0, "absent", "", "", {}, TRUE)
OldLine == Line("json", StartNow - 10, 500, 5000, "absent", "", "", {}, FALSE)
LineKinds == {PlainLine, OldLine}

RECURSIVE SeqsUpTo(_, _)
SeqsUpTo(S, n) ==
  IF n = 0 THEN {<<>>}
  ELSE LET shorter == SeqsUpTo(S, n - 1)
       IN shorter \cup {Append(s, x) : s \in {t \in shorter : Len(t) = n - 1}, x \in S}

\* ------------------------------------------------------------------ parser
\* time.Duration.Milliseconds()
Milliseconds(d) == d \div 1000

\* time.Millisecond, in the unit of the model's durations (microseconds).
Millisecond == 1000

\* time.Duration is a signed integer of fixed width (64 bits of nanoseconds
\* in Go, DurationBits bits of microseconds here): a product wraps around.
DurationBits == 24

WrapDuration(n) ==
  With(n % (2 ^ DurationBits),
       LAMBDA m : IF m >= 2 ^ (DurationBits - 1) THEN m - 2 ^ DurationBits ELSE m)

\* types.LogEntry{}: the zero record (id is the position of the line).
LogEntryZero(id) ==
  [id |-> id, Timestamp |-> 0, Level |-> "", StatusCode |-> 0, Latency |-> 0,
   Endpoint |-> ""]

\* strings.ToUpper on the level texts of the lines.
ToUpper(s) ==
  CASE s = "warning" -> "WARNING"
    [] s = "Err" -> "ERR"
    [] s = "trace" -> "TRACE"
    [] OTHER -> s

\* parseLevel
parseLevel(s) ==
  With(ToUpper(s),
       LAMBDA u : CASE u = "INFO" -> "INFO"
                    [] u \in {"WARN", "WARNING"} -> "WARN"
                    [] u \in {"ERROR", "ERR"} -> "ERROR"
                    [] u = "DEBUG" -> "DEBUG"
                    [] OTHER -> "UNKNOWN")

\* A fallback parser that claims only the lines with a word it knows.
LineParserOkKnownWord(line) == line.words # {}

\* LineParser.Parse claims every line.
LineParserOk(line) == TRUE

\* LineParser.Parse: the fallback stamps the line with the current time and
\* takes the level from the words "error" and "warn".
LineParserParse(id, line, t) ==
  [id |-> id, Timestamp |-> t,
   Level |-> IF "error" \in line.words THEN "ERROR"
             ELSE IF "warn" \in line.words THEN "WARN" ELSE "INFO",
   StatusCode |-> 0, Latency |-> 0, Endpoint |-> ""]

\* JSONParser.Parse claims the lines json.Unmarshal reads as an object.
JSONParserOk(line) == line.fmt = "json"

\* JSONParser.Parse: timestamp, level, status, latency and endpoint taken
\* from the object.  A level that is present but not a string leaves the
\* zero Level; the latency is time.Duration(l) * time.Millisecond.
JSONParserParse(id, line, t) ==
  [id |-> id, Timestamp |-> IF line.ts = NoTs THEN t ELSE line.ts,
   Level |-> IF line.levelKind = "absent" THEN "INFO"
             ELSE IF line.levelKind = "string" THEN parseLevel(line.level)
             ELSE "",
   StatusCode |-> line.status,
   Latency |-> WrapDuration((line.latency \div 1000) * Millisecond),
   Endpoint |-> line.endpoint]

\* NginxParser.Parse: "temporarily disabled", it returns LogEntry{}, false
\* before it looks at the line.
NginxParserOk(line) == FALSE

NginxParserParse(id, line, t) == LogEntryZero(id)

\* MultiParser.Parse: the first parser of the chain that claims the line;
\* LogEntry{}, false when none does.
ParseOk(line) == JSONParserOk(line) \/ NginxParserOk(line) \/ LineParserOk(line)

Parse(id, line, t) ==
  IF JSONParserOk(line) THEN JSONParserParse(id, line, t)
  ELSE IF NginxParserOk(line) THEN NginxParserParse(id, line, t)
  ELSE IF LineParserOk(line) THEN LineParserParse(id, line, t)
  ELSE LogEntryZero(id)

\* ------------------------------------------------------------------- store
\* Storage.InsertLogEntry: the row keeps the latency in whole milliseconds.
InsertLogEntry(st, entry) ==
  Append(st, [id |-> entry.id, timestamp |-> entry.Timestamp,
              level |-> entry.Level, status_code |-> entry.StatusCode,
              latency_ms |-> Milliseconds(entry.Latency),
              endpoint |-> entry.Endpoint])

RowToEntry(row) ==
  [id |-> row.id, Timestamp |-> row.timestamp, Level |-> row.level,
   StatusCode |-> row.status_code, Latency |-> row.latency_ms * Millisecond,
   Endpoint |-> row.endpoint]

\* Storage.GetLogEntriesSince: WHERE timestamp >= ? ORDER BY timestamp ASC
GetLogEntriesSince(st, since) ==
  With(SortRows(SelectSeq(st, LAMBDA r : r.timestamp >= since)),
       LAMBDA rows : [i \in 1..Len(rows) |-> RowToEntry(rows[i])])

\* Storage.GetEntriesInWindow
GetEntriesInWindow(st, window, t) == GetLogEntriesSince(st, t - window)

\* Storage.PruneOldEntries: DELETE ... WHERE timestamp < ?
PruneOldEntries(st, olderThan) == SelectSeq(st, LAMBDA r : r.timestamp >= olderThan)

\* ----------------------------------------------------------------- metrics
\* stats.Percentile of montanaflynn/stats followed by time.Duration(v):
\* the value at rank percent/100 * len when that rank is whole, the mean
\* of the two neighbours otherwise, truncated to whole milliseconds.
PercentileSorted(c, percent) ==
  LET n == Len(c)
      i == (percent * n) \div 100
  IN IF n = 0 THEN 0
     ELSE IF n = 1 THEN c[1]
     ELSE IF (percent * n) % 100 = 0 THEN c[i]
     ELSE IF percent * n > 100 THEN (c[i] + c[i + 1]) \div 2
     ELSE 0

Percentile(input, percent) ==
  With(SortInts(input), LAMBDA c : PercentileSorted(c, percent))

\* The custom metrics of the configuration file: one of type count.
CustomMetricSpecs == <<[Name |-> "hits", Type |-> "count"]>>

\* WindowedMetrics.Custom as computeWindowedMetrics leaves it: an empty map
\* for an empty window and no map otherwise, no counter in either (NewEngine
\* does not even store the customMetrics it is given).
NoCustom == [name \in {} |-> 0]

\* wm.Custom[name]: a missing key reads as 0.
CustomCount(wm, name) == IF name \in DOMAIN wm.Custom THEN wm.Custom[name] ELSE 0

EmptyWindowedMetrics ==
  [RPS |-> 0, ErrorRate |-> 0, P50Latency |-> 0, P90Latency |-> 0,
   P95Latency |-> 0, P99Latency |-> 0, TopEndpoints |-> [ep \in {} |-> 0],
   TotalRequests |-> 0, TotalErrors |-> 0,
   StatusCodeDistribution |-> [b \in {} |-> 0], Custom |-> NoCustom]

\* Engine.computeWindowedMetrics.  RPS is kept as requests per hour
\* (total / window.Seconds() * 3600), ErrorRate as percent * ErrScale.
WindowLatencies(entries) ==
  With(SelectSeq(entries, LAMBDA e : e.StatusCode < 400 /\ e.Latency > 0),
       LAMBDA ok : [i \in 1..Len(ok) |-> Milliseconds(ok[i].Latency)])

\* An error count that leaves out the status 400 itself.
TotalErrorsAbove400(entries) ==
  Len(SelectSeq(entries, LAMBDA e : e.StatusCode > 400))

\* totalErrors: the entries with StatusCode >= 400.
TotalErrors(entries) ==
  Len(SelectSeq(entries, LAMBDA e : e.StatusCode >= 400))

\* topEndpoints: a count for every non-empty Endpoint.
TopEndpoints(entries) ==
  [ep \in {entries[i].Endpoint : i \in 1..Len(entries)} \ {""} |->
     Len(SelectSeq(entries, LAMBDA e : e.Endpoint = ep))]

\* statusCodeCategory
statusCodeCategory(code) ==
  IF code >= 100 /\ code < 200 THEN "1xx"
  ELSE IF code >= 200 /\ code < 300 THEN "2xx"
  ELSE IF code >= 300 /\ code < 400 THEN "3xx"
  ELSE IF code >= 400 /\ code < 500 THEN "4xx"
  ELSE IF code >= 500 /\ code < 600 THEN "5xx"
  ELSE "Other"

\* A distribution that counts only the codes of the five classes.
StatusCodeDistNoOther(entries) ==
  With(SelectSeq(entries, LAMBDA e : e.StatusCode >= 100 /\ e.StatusCode < 600),
       LAMBDA known :
         [b \in {statusCodeCategory(known[i].StatusCode) : i \in 1..Len(known)} |->
            Len(SelectSeq(known, LAMBDA e : statusCodeCategory(e.StatusCode) = b))])

\* statusCodeDist: a count for the category of every entry.
StatusCodeDist(entries) ==
  [b \in {statusCodeCategory(entries[i].StatusCode) : i \in 1..Len(entries)} |->
     Len(SelectSeq(entries, LAMBDA e : statusCodeCategory(e.StatusCode) = b))]

WindowedMetricsOf(entries, window, latencies) ==
  LET totalRequests == Len(entries)
      totalErrors == TotalErrors(entries)
  IN [RPS |-> IF window > 0 THEN (totalRequests * 60) \div window ELSE 0,
      ErrorRate |-> (100 * totalErrors * ErrScale) \div totalRequests,
      P50Latency |-> Percentile(latencies, 50),
      P90Latency |-> Percentile(latencies, 90),
      P95Latency |-> Percentile(latencies, 95),
      P99Latency |-> Percentile(latencies, 99),
      TopEndpoints |-> TopEndpoints(entries),
      TotalRequests |-> totalRequests,
      TotalErrors |-> totalErrors,
      StatusCodeDistribution |-> StatusCodeDist(entries),
      Custom |-> NoCustom]

computeWindowedMetrics(entries, window) ==
  IF Len(entries) = 0 THEN EmptyWindowedMetrics
  ELSE With(WindowLatencies(entries),
            LAMBDA latencies : WindowedMetricsOf(entries, window, latencies))

\* The window queries that fail: every one on a closed Store, none on an
\* open one.
QueriesFailing(closed) == IF closed THEN DOMAIN windows ELSE {}

\* Engine.calculateMetrics: one-shot mode computes the window "all" over the
\* recency buffer; streaming mode queries the Store once for every window
\* and skips the windows whose query fails (failed: the Store was closed
\* by then).
\* A faulty calculateMetrics: every window is read from the recency buffer,
\* which prune cuts to the last defaultWindow, instead of from the Store.
WindowEntriesFromBuffer(scan, buffer, st, failed, t) ==
  [w \in (IF scan THEN {"all"} ELSE DOMAIN windows) |-> buffer]

\* A faulty calculateMetrics: the first failing query ends the computation
\* and no window is kept.
WindowEntriesUnlessFailure(scan, buffer, st, failed, t) ==
  IF scan THEN [w \in {"all"} |-> buffer]
  ELSE [w \in (IF failed # {} THEN {} ELSE DOMAIN windows) |->
          GetEntriesInWindow(st, windows[w], t)]

WindowEntries(scan, buffer, st, failed, t) ==
  IF scan THEN [w \in {"all"} |-> buffer]
  ELSE [w \in DOMAIN windows \ failed |-> GetEntriesInWindow(st, windows[w], t)]

calculateMetrics(scan, buffer, st, failed, t) ==
  With(WindowEntries(scan, buffer, st, failed, t),
       LAMBDA entries :
         [w \in DOMAIN entries |->
            computeWindowedMetrics(entries[w], IF scan THEN 0 ELSE windows[w])])

\* The ids of the records each window of calculateMetrics was computed over.
CountedIds(scan, buffer, st, failed, t) ==
  With(WindowEntries(scan, buffer, st, failed, t),
       LAMBDA entries :
         [w \in DOMAIN entries |-> {entries[w][i].id : i \in 1..Len(entries[w])}])

\* calculateMeanStd and the 3-sigma test of detectAnomalies, without the
\* square root and within 32-bit integers: |cur - mean| > 3 * std with
\* std^2 = sumSq / (n - 1), where n * sumSq is the sum of the squared
\* differences of all pairs of samples.
SumSqDev(data) ==
  LET n == Len(data)
  IN SumSeq([i \in 1..n |->
       SumSeq([j \in 1..n |->
         IF i < j THEN (data[i] - data[j]) * (data[i] - data[j]) ELSE 0])])

\* a / c > e / b for a, e >= 0 and b, c > 0, by whole parts and remainders.
RECURSIVE FracGreater(_, _, _, _)
FracGreater(a, c, e, b) ==
  IF a \div c # e \div b THEN a \div c > e \div b
  ELSE IF a % c = 0 THEN FALSE
  ELSE IF e % b = 0 THEN TRUE
  ELSE FracGreater(b, e % b, c, a % c)

\* (cur - mean)^2 > sigmas2 * std^2: d = n * (cur - mean), and a history of
\* equal samples has std = 0.
OutsideSigmas(data, cur, sigmas2) ==
  LET n == Len(data)
      d == n * cur - SumSeq(data)
      sumSq == SumSqDev(data)
  IN IF sumSq = 0 THEN d # 0
     ELSE FracGreater(d * d, sumSq, sigmas2 * n, n - 1)

\* A detector with a range of two standard deviations.
OutsideTwoSigma(data, cur) == OutsideSigmas(data, cur, 4)

OutsideThreeSigma(data, cur) == OutsideSigmas(data, cur, 9)

\* The baseline drift test: mean of the last 10 against the preceding 10.
BaselineDrift(data) ==
  LET n == Len(data)
      recent == SumSeq(SubSeq(data, n - 9, n))
      older == SumSeq(SubSeq(data, n - 19, n - 10))
  IN 10 * recent > 12 * older \/ 10 * recent < 8 * older

\* Engine.detectAnomalies: the anomaly kinds appended at this computation.
detectAnomalies(wins, rpsH, errH, latH) ==
  IF "1h" \notin DOMAIN wins THEN <<>>
  ELSE
    LET wm == wins["1h"]
    IN (IF Len(rpsH) > 10 /\ OutsideThreeSigma(rpsH, wm.RPS)
          THEN <<"RPS Anomaly">> ELSE <<>>)
       \o (IF Len(errH) > 10 /\ OutsideThreeSigma(errH, wm.ErrorRate)
          THEN <<"Error Rate Anomaly">> ELSE <<>>)
       \o (IF Len(latH) > 10 /\ OutsideThreeSigma(latH, wm.P95Latency)
          THEN <<"Latency Anomaly">> ELSE <<>>)
       \o (IF Len(rpsH) > 20 /\ BaselineDrift(rpsH)
          THEN <<"Baseline Drift">> ELSE <<>>)

\* Engine.prune: drop records from the front of the recency buffer while
\* the front record is older than windowDuration.
RECURSIVE prune(_, _)
prune(buffer, t) ==
  IF buffer # <<>> /\ t - Head(buffer).Timestamp > defaultWindow
    THEN prune(Tail(buffer), t)
    ELSE buffer

\* The latency array rebuilt by prune from the remaining buffer.
RebuildLatencies(buffer) ==
  LET ok == SelectSeq(buffer, LAMBDA e : e.StatusCode < 400 /\ e.Latency > 0)
  IN [i \in 1..Len(ok) |-> Milliseconds(ok[i].Latency)]

TrendPoint(wm) ==
  [RPS |-> wm.RPS, P95Latency |-> wm.P95Latency, ErrorRate |-> wm.ErrorRate]

\* ================================================================== state
VARIABLES
  initialScan,      \* --initial-scan: one-shot mode of ingest, engine and dashboard
  mode,             \* "file" (FileIngester) or "stdin" (StdinIngester)
  source,           \* the lines the input holds, in order
  now,              \* wall clock
  advances,         \* clock jumps so far
  tickPending,      \* a tick waits in ticker.C
  cancelled,        \* ctx of runWatch is cancelled
  exited,           \* the dashboard quit and the process ended
  ingPc, srcPos, ingLine,
  lines,            \* the ingest's output channel (rawLogChan)
  linesClosed,
  fanPc, fanLine,
  parserFeedCloses, \* close(rawLogChanForParser) executed so often
  tuiFeedCloses,    \* close(rawLogChanForTUI) executed so often
  parserDelivered,  \* lines sent on rawLogChanForParser
  rawDelivered,     \* lines sent on rawLogChanForTUI
  parPc, parEntry,
  logEntryClosed,   \* close(logEntryChan)
  insPc, insEntry, insOut,
  tkPc, tkOut,
  mu,               \* holder of Engine.mu
  logEntries, latencies, dirty, metrics,
  metricsHistory, rpsHistory, errorRateHistory, latencyHistory,
  store, storeClosed, lastPrune,
  doneClosed,       \* close(e.doneChan)
  metricsChanClosed,
  tuiMetrics, logs,
  published,        \* the snapshots received from metricsChan, in order
  sendsSinceTick,   \* sends on metricsChan begun since the ticker last fired
  insertsSincePub,  \* addLogEntry calls since the last completed send
  insertedIds,      \* <<id, timestamp>> of the records addLogEntry has handled
  \* ---- an ingest source run on its own, against a consumer of its channel
  ingester,         \* "none", or which Ingest/Replay runs: "poll", "tail", "sync", "replay"
  files,            \* files[g]: lines in the g-th file that was put at the watched path
  pathGen,          \* which file the watched path names now
  openGen,          \* which file the open handle reads
  openSize,         \* lines the file held when Ingest opened it
  igPc,             \* position of the ingest goroutine (or of the Ingest call)
  currentSize,      \* polling ingest: currentSize
  statSize,         \* polling ingest: stat.Size() of the running poll
  scanPos,          \* lines the scanner (the tail reader, the replay loop) has passed
  heldLine,         \* the line of the send in progress
  outChan,          \* buffer of the channel Ingest returns
  outClosed,        \* close(lines) / close(outChan)
  returned,         \* the call of Ingest/Replay has returned
  emitted,          \* every line sent on the channel, in order
  ctxDone,          \* ctx is cancelled
  emittedAtCancel,  \* Len(emitted) when ctx was cancelled
  consumerAlive,    \* the reader of the channel still receives
  \* ---- the ticker case of the engine run on given window metrics
  trendInput,       \* the samples calculateMetrics yields tick after tick
  ticks,            \* ticker ticks handled so far
  \* ---- parser chain, Store and window computation run on given lines
  recInput,         \* the lines handed to the parser goroutine
  recNow,           \* time.Now()
  recLines,         \* lines the parser goroutine has taken
  recParsed,        \* the records it forwarded, in order
  recAgain,         \* the records of a second Parse of the same lines
  recDb,            \* rows of log_entries
  recEntries,       \* the records each window was last computed over
  recWindows,       \* Metrics.Windows as last computed
  \* ---- the engine started again and again on the same database file
  loadsOnStart,     \* the revision whose loadExistingEntries reads the Store
  runPc,            \* "down": no process; "up": Engine.Start has returned
  emittedRecords,   \* records the parser has emitted over all runs
  restarts,         \* runs ended so far
  \* ---- the subscriber of the channel Engine.Start returns
  receiving         \* it still receives from metricsChan

cfgVars == <<initialScan, mode, source>>
envVars == <<now, advances, tickPending, cancelled, exited>>
ingVars == <<ingPc, srcPos, ingLine, lines, linesClosed>>
fanVars == <<fanPc, fanLine, parserFeedCloses, tuiFeedCloses, parserDelivered, rawDelivered>>
parVars == <<parPc, parEntry, logEntryClosed>>
insVars == <<insPc, insEntry, insOut>>
tkVars == <<tkPc, tkOut, mu>>
bufVars == <<logEntries, latencies>>
histVars == <<metricsHistory, rpsHistory, errorRateHistory, latencyHistory>>
storeVars == <<store, storeClosed, lastPrune>>
engVars == <<bufVars, dirty, metrics, histVars, storeVars, doneClosed, metricsChanClosed>>
tuiVars == <<tuiMetrics, logs>>
pubVars == <<published, sendsSinceTick, insertsSincePub, insertedIds>>
fileVars == <<files, pathGen>>
igVars == <<igPc, openGen, currentSize, statSize, scanPos, heldLine, returned>>
chanVars == <<outChan, outClosed, emitted>>
ctxVars == <<ctxDone, emittedAtCancel, consumerAlive>>
trendVars == <<trendInput, ticks>>
recVars == <<recInput, recNow, recLines, recParsed, recAgain, recDb, recEntries,
             recWindows>>
runVars == <<loadsOnStart, runPc, emittedRecords, restarts>>
benchVars == <<ingester, openSize, fileVars, igVars, chanVars, ctxVars, trendVars,
               recVars, runVars, receiving>>
vars == <<cfgVars, envVars, ingVars, fanVars, parVars, insVars, tkVars, engVars,
          tuiVars, pubVars, benchVars>>

NoEntry == LogEntryZero(0)
NoWindows == [w \in {} |-> EmptyWindowedMetrics]
NoIds == [w \in {} |-> {}]

\* types.Metrics as NewEngine builds it.
NewMetrics == [Windows |-> NoWindows, Anomalies |-> <<>>, TrendHistory |-> <<>>]

\* A value offered on metricsChan, with what was true when the send began.
NoOut == [snap |-> NewMetrics, ids |-> NoIds, at |-> 0, dirty |-> FALSE, inputDone |-> FALSE,
          inserted |-> {}, failed |-> {}]

\* main.go: tui.NewModel(metricsChan, rawLogChanForTUI, initialScan)
quitAfterFirstReport == initialScan

\* No line is held for a send.
NoHeld == <<0, 0>>

\* The ticker is not run on given samples.
NoTrend == [before |-> <<0, 0, 0>>, after |-> <<0, 0, 0>>, at |-> 0]

NoTrendRun == trendInput = NoTrend /\ ticks = 0

\* No ingest source is run on its own.
NoIngestRun ==
  /\ ingester = "none"
  /\ files = <<0, 0>> /\ pathGen = 1 /\ openGen = 1 /\ openSize = 0
  /\ igPc = "done" /\ currentSize = 0 /\ statSize = 0 /\ scanPos = 0
  /\ heldLine = NoHeld /\ returned = TRUE
  /\ outChan = <<>> /\ outClosed = FALSE /\ emitted = <<>>
  /\ ctxDone = FALSE /\ emittedAtCancel = 0 /\ consumerAlive = FALSE

\* The parser chain is not run on given lines.
NoWindowEntries == [w \in {} |-> <<>>]

NoRecordRun ==
  /\ recInput = <<>> /\ recNow = StartNow /\ recLines = 0
  /\ recParsed = <<>> /\ recAgain = <<>> /\ recDb = <<>>
  /\ recEntries = NoWindowEntries /\ recWindows = NoWindows

\* The engine is not started on an existing database.
NoRestartRun ==
  loadsOnStart = FALSE /\ runPc = "up" /\ emittedRecords = 0 /\ restarts = 0

NoBench == NoIngestRun /\ NoTrendRun /\ NoRecordRun /\ NoRestartRun

\* State after NewEngine, Engine.Start and the goroutines of runWatch started.
PipelineStarted ==
  /\ now = StartNow /\ advances = 0 /\ tickPending = FALSE
  /\ cancelled = FALSE /\ exited = FALSE
  /\ ingPc = "run" /\ srcPos = 0 /\ ingLine = NoLine /\ lines = <<>> /\ linesClosed = FALSE
  /\ fanPc = "recv" /\ fanLine = NoLine
  /\ parserFeedCloses = 0 /\ tuiFeedCloses = 0
  /\ parserDelivered = <<>> /\ rawDelivered = <<>>
  /\ parPc = "recv" /\ parEntry = NoEntry /\ logEntryClosed = FALSE
  /\ insPc = "select" /\ insEntry = NoEntry /\ insOut = NoOut
  /\ tkPc = "select" /\ tkOut = NoOut /\ mu = "free"
  /\ logEntries = <<>> /\ latencies = <<>> /\ dirty = FALSE /\ metrics = NewMetrics
  /\ metricsHistory = <<>> /\ rpsHistory = <<>>
  /\ errorRateHistory = <<>> /\ latencyHistory = <<>>
  /\ store = <<>> /\ storeClosed = FALSE /\ lastPrune = StartNow
  /\ doneClosed = FALSE /\ metricsChanClosed = FALSE
  /\ tuiMetrics = NewMetrics /\ logs = <<>>
  /\ published = <<>> /\ sendsSinceTick = 0 /\ insertsSincePub = 0
  /\ insertedIds = {}
  /\ receiving = TRUE

Started ==
  /\ NoBench
  /\ source \in SeqsUpTo(LineKinds, MaxLines)
  /\ PipelineStarted

\* pulsewatch watch [file]: live tailing of a file or of standard input.
Init ==
  /\ initialScan = FALSE
  /\ mode \in {"file", "stdin"}
  /\ Started

\* pulsewatch watch --initial-scan file: the one-shot report.
ScanInit ==
  /\ initialScan = TRUE
  /\ mode = "file"
  /\ Started

\* ============================================================ environment
\* The clock moves on, by more than the prune interval and the widest window.
Advance ==
  /\ advances < MaxAdvance
  /\ now' = now + pruneInterval + 1
  /\ advances' = advances + 1
  /\ UNCHANGED <<cfgVars, benchVars, tickPending, cancelled, exited, ingVars, fanVars,
                 parVars, insVars, tkVars, engVars, tuiVars, pubVars>>

\* time.Ticker fires: the tick goes into ticker.C (capacity one) and is
\* dropped when the previous one still waits there.
TickFire ==
  /\ tickPending' = TRUE
  /\ sendsSinceTick' = 0
  /\ UNCHANGED <<cfgVars, benchVars, now, advances, cancelled, exited, ingVars, fanVars,
                 parVars, insVars, tkVars, engVars, tuiVars, published, insertsSincePub,
                 insertedIds>>

\* SIGINT/SIGTERM: the signal goroutine calls cancel().
Cancel ==
  /\ ~cancelled
  /\ cancelled' = TRUE
  /\ UNCHANGED <<cfgVars, benchVars, now, advances, tickPending, exited, ingVars, fanVars,
                 parVars, insVars, tkVars, engVars, tuiVars, pubVars>>

\* Engine.Stop: close the Store (unless TickerTickStoreClosing saw that
\* happen), close doneChan.
Stop ==
  /\ ~doneClosed
  /\ storeClosed' = TRUE
  /\ doneClosed' = TRUE
  /\ UNCHANGED <<cfgVars, benchVars, envVars, ingVars, fanVars, parVars, insVars, tkVars, bufVars,
                 dirty, metrics, histVars, store, lastPrune, metricsChanClosed,
                 tuiVars, pubVars>>

\* ================================================================= ingest
closeLines ==
  /\ linesClosed' = TRUE
  /\ ingPc' = "done"

\* FileIngester.Ingest, one-shot read: select { lines <- text; <-ctx.Done() }
IngestScanSend ==
  /\ mode = "file" /\ initialScan /\ ingPc = "run"
  /\ srcPos < Len(source) /\ Len(lines) < LinesCap
  /\ lines' = Append(lines, srcPos + 1)
  /\ srcPos' = srcPos + 1
  /\ UNCHANGED <<cfgVars, benchVars, envVars, ingPc, ingLine, linesClosed, fanVars, parVars, insVars,
                 tkVars, engVars, tuiVars, pubVars>>

IngestScanCancel ==
  /\ mode = "file" /\ initialScan /\ ingPc = "run"
  /\ srcPos < Len(source) /\ cancelled
  /\ closeLines
  /\ UNCHANGED <<cfgVars, benchVars, envVars, srcPos, ingLine, lines, fanVars, parVars, insVars,
                 tkVars, engVars, tuiVars, pubVars>>

\* scanner.Scan() returns false at the end of the file: deferred close(lines).
IngestScanEOF ==
  /\ mode = "file" /\ initialScan /\ ingPc = "run"
  /\ srcPos = Len(source)
  /\ closeLines
  /\ UNCHANGED <<cfgVars, benchVars, envVars, srcPos, ingLine, lines, fanVars, parVars, insVars,
                 tkVars, engVars, tuiVars, pubVars>>

\* FileIngester.Ingest, tailing: case line := <-t.Lines
IngestTailLine ==
  /\ mode = "file" /\ ~initialScan /\ ingPc = "run"
  /\ srcPos < Len(source)
  /\ ingLine' = srcPos + 1
  /\ srcPos' = srcPos + 1
  /\ ingPc' = "send"
  /\ UNCHANGED <<cfgVars, benchVars, envVars, lines, linesClosed, fanVars, parVars, insVars,
                 tkVars, engVars, tuiVars, pubVars>>

\* ... lines <- line.Text, a send that does not watch ctx.
IngestTailSend ==
  /\ mode = "file" /\ ingPc = "send"
  /\ Len(lines) < LinesCap
  /\ lines' = Append(lines, ingLine)
  /\ ingLine' = NoLine
  /\ ingPc' = "run"
  /\ UNCHANGED <<cfgVars, benchVars, envVars, srcPos, linesClosed, fanVars, parVars, insVars,
                 tkVars, engVars, tuiVars, pubVars>>

\* case <-ctx.Done(): t.Stop(); return
IngestTailCancel ==
  /\ mode = "file" /\ ~initialScan /\ ingPc = "run"
  /\ cancelled
  /\ closeLines
  /\ UNCHANGED <<cfgVars, benchVars, envVars, srcPos, ingLine, lines, fanVars, parVars, insVars,
                 tkVars, engVars, tuiVars, pubVars>>

\* StdinIngester.Ingest: scanner.Scan() returns a line ...
IngestStdinScan ==
  /\ mode = "stdin" /\ ingPc = "run"
  /\ srcPos < Len(source)
  /\ ingLine' = srcPos + 1
  /\ srcPos' = srcPos + 1
  /\ ingPc' = "send"
  /\ UNCHANGED <<cfgVars, benchVars, envVars, lines, linesClosed, fanVars, parVars, insVars,
                 tkVars, engVars, tuiVars, pubVars>>

\* ... or false once the writer of standard input has closed it; it blocks
\* for as long as the writer does neither.
IngestStdinEOF ==
  /\ mode = "stdin" /\ ingPc = "run"
  /\ srcPos = Len(source)
  /\ closeLines
  /\ UNCHANGED <<cfgVars, benchVars, envVars, srcPos, ingLine, lines, fanVars, parVars, insVars,
                 tkVars, engVars, tuiVars, pubVars>>

\* select { case lines <- text: ; case <-ctx.Done(): return }
IngestStdinCancel ==
  /\ mode = "stdin" /\ ingPc = "send"
  /\ cancelled
  /\ closeLines
  /\ UNCHANGED <<cfgVars, benchVars, envVars, srcPos, ingLine, lines, fanVars, parVars, insVars,
                 tkVars, engVars, tuiVars, pubVars>>

\* ================================================================ fan-out
\* The deferred close(rawLogChanForTUI) and close(rawLogChanForParser).
closeFeeds ==
  /\ parserFeedCloses' = parserFeedCloses + 1
  /\ tuiFeedCloses' = tuiFeedCloses + 1
  /\ fanPc' = "done"

\* for line := range rawLogChan, from the buffer of the file ingest
FanoutRecvBuffered ==
  /\ fanPc = "recv" /\ lines # <<>>
  /\ fanLine' = Head(lines)
  /\ lines' = Tail(lines)
  /\ fanPc' = "sendParser"
  /\ UNCHANGED <<cfgVars, benchVars, envVars, ingPc, srcPos, ingLine, linesClosed, parserFeedCloses,
                 tuiFeedCloses, parserDelivered, rawDelivered, parVars, insVars, tkVars,
                 engVars, tuiVars, pubVars>>

\* ... or handed over by the standard input ingest (unbuffered channel).
FanoutRecvUnbuffered ==
  /\ fanPc = "recv" /\ mode = "stdin" /\ ingPc = "send"
  /\ fanLine' = ingLine
  /\ ingLine' = NoLine
  /\ ingPc' = "run"
  /\ fanPc' = "sendParser"
  /\ UNCHANGED <<cfgVars, benchVars, envVars, srcPos, lines, linesClosed, parserFeedCloses,
                 tuiFeedCloses, parserDelivered, rawDelivered, parVars, insVars, tkVars,
                 engVars, tuiVars, pubVars>>

\* rawLogChan is closed and drained: the range loop ends.
FanoutUpstreamClosed ==
  /\ fanPc = "recv" /\ lines = <<>> /\ linesClosed
  /\ closeFeeds
  /\ UNCHANGED <<cfgVars, benchVars, envVars, ingVars, fanLine, parserDelivered, rawDelivered,
                 parVars, insVars, tkVars, engVars, tuiVars, pubVars>>

\* A faulty fan-out: the line goes to the parser feed only and the next
\* line is accepted at once.
FanoutSendParserOnly ==
  /\ fanPc = "sendParser" /\ parPc = "recv"
  /\ parEntry' = Parse(fanLine, source[fanLine], now)
  /\ parPc' = IF ParseOk(source[fanLine]) THEN "send" ELSE "recv"
  /\ parserDelivered' = Append(parserDelivered, fanLine)
  /\ fanLine' = NoLine
  /\ fanPc' = "recv"
  /\ UNCHANGED <<cfgVars, benchVars, envVars, ingVars, parserFeedCloses, tuiFeedCloses,
                 rawDelivered, logEntryClosed, insVars, tkVars, engVars, tuiVars, pubVars>>

\* case rawLogChanForParser <- line: the parser goroutine receives and parses.
FanoutSendParser ==
  /\ fanPc = "sendParser" /\ parPc = "recv"
  /\ parEntry' = Parse(fanLine, source[fanLine], now)
  /\ parPc' = IF ParseOk(source[fanLine]) THEN "send" ELSE "recv"
  /\ parserDelivered' = Append(parserDelivered, fanLine)
  /\ fanPc' = "sendTUI"
  /\ UNCHANGED <<cfgVars, benchVars, envVars, ingVars, fanLine, parserFeedCloses, tuiFeedCloses,
                 rawDelivered, logEntryClosed, insVars, tkVars, engVars, tuiVars, pubVars>>

\* Model.Update(rawLogMsg): append, keep the last maxLogEntries.
appendLog(line) ==
  LET l == Append(logs, line)
  IN logs' = IF Len(l) > maxLogEntries
               THEN SubSeq(l, Len(l) - maxLogEntries + 1, Len(l)) ELSE l

\* case rawLogChanForTUI <- line: the dashboard's waitForRawLogs receives.
FanoutSendTUI ==
  /\ fanPc = "sendTUI"
  /\ appendLog(fanLine)
  /\ rawDelivered' = Append(rawDelivered, fanLine)
  /\ fanLine' = NoLine
  /\ fanPc' = "recv"
  /\ UNCHANGED <<cfgVars, benchVars, envVars, ingVars, parserFeedCloses, tuiFeedCloses,
                 parserDelivered, parVars, insVars, tkVars, engVars, tuiMetrics,
                 pubVars>>

\* case <-ctx.Done(): return, from either send.
FanoutCancelled ==
  /\ fanPc \in {"sendParser", "sendTUI"} /\ cancelled
  /\ closeFeeds
  /\ UNCHANGED <<cfgVars, benchVars, envVars, ingVars, fanLine, parserDelivered, rawDelivered,
                 parVars, insVars, tkVars, engVars, tuiVars, pubVars>>

\* ================================================================= parser
\* A faulty parser goroutine: a send that does not wait, so that a record is
\* lost whenever the insert loop is not at its select.
ParserSendOrDrop ==
  /\ parPc = "send"
  /\ IF insPc = "select"
       THEN insEntry' = parEntry /\ insPc' = "add"
       ELSE UNCHANGED <<insEntry, insPc>>
  /\ parEntry' = NoEntry
  /\ parPc' = "recv"
  /\ UNCHANGED <<cfgVars, benchVars, envVars, ingVars, fanVars, logEntryClosed, insOut, tkVars,
                 engVars, tuiVars, pubVars>>

\* logEntryChan <- entry, received by the select of Engine.processLogs.
ParserSend ==
  /\ parPc = "send" /\ insPc = "select"
  /\ insEntry' = parEntry
  /\ insPc' = "add"
  /\ parEntry' = NoEntry
  /\ parPc' = "recv"
  /\ UNCHANGED <<cfgVars, benchVars, envVars, ingVars, fanVars, logEntryClosed, insOut, tkVars,
                 engVars, tuiVars, pubVars>>

\* rawLogChanForParser is closed: deferred close(logEntryChan).
ParserFeedClosed ==
  /\ parPc = "recv" /\ parserFeedCloses > 0
  /\ logEntryClosed' = TRUE
  /\ parPc' = "done"
  /\ UNCHANGED <<cfgVars, benchVars, envVars, ingVars, fanVars, parEntry, insVars, tkVars,
                 engVars, tuiVars, pubVars>>

\* ================================================================= engine
\* The input of the insert loop is used up: the parser closed logEntryChan
\* and no received record waits to be added.
inputConsumed == logEntryClosed /\ insPc # "add"

\* A faulty addLogEntry: when the Store rejects the insert it returns at
\* once, and the insert loop ends.
AddLogEntryStopOnError ==
  /\ insPc = "add" /\ mu = "free"
  /\ \E buffer \in {IF storeClosed THEN Append(logEntries, insEntry)
                    ELSE prune(Append(logEntries, insEntry), now)} :
       /\ logEntries' = buffer
       /\ latencies' = IF storeClosed THEN latencies ELSE RebuildLatencies(buffer)
  /\ store' = IF storeClosed THEN store ELSE InsertLogEntry(store, insEntry)
  /\ dirty' = (dirty \/ ~storeClosed)
  /\ insertedIds' = insertedIds \cup {<<insEntry.id, insEntry.Timestamp>>}
  /\ insertsSincePub' = insertsSincePub + 1
  /\ insEntry' = NoEntry
  /\ insPc' = IF storeClosed THEN "done" ELSE "select"
  /\ UNCHANGED <<cfgVars, benchVars, envVars, ingVars, fanVars, parVars, insOut, tkVars, metrics,
                 histVars, storeClosed, lastPrune, doneClosed, metricsChanClosed,
                 tuiVars, published, sendsSinceTick>>

\* Engine.addLogEntry, under e.mu: push, insert to the Store (an error is
\* only logged), mark dirty, prune and rebuild the latencies.
AddLogEntry ==
  /\ insPc = "add" /\ mu = "free"
  /\ LET buffer == prune(Append(logEntries, insEntry), now)
     IN /\ logEntries' = buffer
        /\ latencies' = RebuildLatencies(buffer)
  /\ store' = IF storeClosed THEN store ELSE InsertLogEntry(store, insEntry)
  /\ dirty' = TRUE
  /\ insertedIds' = insertedIds \cup {<<insEntry.id, insEntry.Timestamp>>}
  /\ insertsSincePub' = insertsSincePub + 1
  /\ insEntry' = NoEntry
  /\ insPc' = "select"
  /\ UNCHANGED <<cfgVars, benchVars, envVars, ingVars, fanVars, parVars, insOut, tkVars, metrics,
                 histVars, storeClosed, lastPrune, doneClosed, metricsChanClosed,
                 tuiVars, published, sendsSinceTick>>

\* The trend sample appended after a computation, when window key exists.
appendHistory(wins, key) ==
  IF key \in DOMAIN wins
    THEN /\ metricsHistory' =
              AppendCapped(metricsHistory, TrendPoint(wins[key]), maxMetricsHistory)
         /\ rpsHistory' = AppendCapped(rpsHistory, wins[key].RPS, maxMetricsHistory)
         /\ errorRateHistory' =
              AppendCapped(errorRateHistory, wins[key].ErrorRate, maxMetricsHistory)
         /\ latencyHistory' =
              AppendCapped(latencyHistory, wins[key].P95Latency, maxMetricsHistory)
    ELSE UNCHANGED histVars

\* The value of e.metrics a send on metricsChan begins with, and what is
\* true of the engine at that moment.
offerAfter(snap, failed) ==
  [snap |-> snap,
   ids |-> CountedIds(initialScan, logEntries, store, failed, now),
   at |-> now, dirty |-> dirty, inputDone |-> inputConsumed,
   inserted |-> insertedIds, failed |-> failed]

offer(snap) == offerAfter(snap, QueriesFailing(storeClosed))

\* A receive of the dashboard from metricsChan: waitForMetrics and
\* Model.Update(metricsMsg), which quits after the first report in
\* one-shot mode; the process then ends.
deliver(out, by) ==
  /\ ~metricsChanClosed /\ receiving
  /\ published' = Append(published,
       [by |-> by, snap |-> out.snap, ids |-> out.ids, at |-> out.at,
        dirty |-> out.dirty, inputDone |-> out.inputDone, inserted |-> out.inserted,
        failed |-> out.failed,
        inserts |-> insertsSincePub, afterCancel |-> cancelled])
  /\ insertsSincePub' = 0
  /\ tuiMetrics' = out.snap
  /\ exited' = (quitAfterFirstReport /\ DOMAIN out.snap.Windows # {})

\* Engine.processLogs, case logEntry, ok := <-logChan with ok = false, in
\* live mode: return.
ProcessLogsClosed ==
  /\ insPc = "select" /\ logEntryClosed
  /\ ~initialScan
  /\ insPc' = "done"
  /\ UNCHANGED <<cfgVars, benchVars, envVars, ingVars, fanVars, parVars, insEntry, insOut, tkVars,
                 engVars, tuiVars, pubVars>>

\* ... in one-shot mode: compute, detect, append the trend sample and begin
\* the send, all without taking e.mu.
ProcessLogsReport ==
  /\ insPc = "select" /\ logEntryClosed
  /\ initialScan
  /\ LET wins == calculateMetrics(initialScan, logEntries, store, QueriesFailing(storeClosed), now)
         anoms == metrics.Anomalies
                    \o detectAnomalies(wins, rpsHistory, errorRateHistory, latencyHistory)
     IN /\ appendHistory(wins, IF "all" \in DOMAIN wins THEN "all" ELSE "1m")
        /\ metrics' = [Windows |-> wins, Anomalies |-> anoms,
                       TrendHistory |-> metricsHistory']
        /\ insOut' = [offer(metrics') EXCEPT !.inputDone = TRUE]
  /\ sendsSinceTick' = sendsSinceTick + 1
  /\ insPc' = "send"
  /\ UNCHANGED <<cfgVars, benchVars, envVars, ingVars, fanVars, parVars, insEntry, tkVars, bufVars,
                 dirty, storeVars, doneClosed, metricsChanClosed, tuiVars, published,
                 insertsSincePub, insertedIds>>

\* ... e.metricsChan <- e.metrics completes; return.
ProcessLogsPublish ==
  /\ insPc = "send"
  /\ deliver(insOut, "close")
  /\ insOut' = NoOut
  /\ insPc' = "done"
  /\ UNCHANGED <<cfgVars, benchVars, now, advances, tickPending, cancelled, ingVars, fanVars,
                 parVars, insEntry, tkVars, engVars, logs, sendsSinceTick, insertedIds>>

\* Engine.processLogs, case <-e.doneChan: return
ProcessLogsDone ==
  /\ insPc = "select" /\ doneClosed
  /\ insPc' = "done"
  /\ UNCHANGED <<cfgVars, benchVars, envVars, ingVars, fanVars, parVars, insEntry, insOut, tkVars,
                 engVars, tuiVars, pubVars>>

\* The periodic prune at the end of the ticker case.
periodicPrune ==
  IF now - lastPrune > pruneInterval
    THEN /\ store' = IF storeClosed THEN store
                     ELSE PruneOldEntries(store, now - maxDBAge)
         /\ lastPrune' = now
    ELSE UNCHANGED <<store, lastPrune>>

\* The ticker case with e.dirty once calculateMetrics has left wins in
\* e.metrics.Windows: detect, append the trend sample and begin the send.
tickReport(wins, failed) ==
  /\ tkPc' = "sendTick"
  /\ mu' = "ticker"
  /\ sendsSinceTick' = sendsSinceTick + 1
  /\ UNCHANGED <<store, lastPrune>>
  /\ appendHistory(wins, "1m")
  /\ metrics' = [Windows |-> wins,
                 Anomalies |-> metrics.Anomalies
                                 \o detectAnomalies(wins, rpsHistory, errorRateHistory,
                                                    latencyHistory),
                 TrendHistory |-> metricsHistory']
  /\ tkOut' = offerAfter(metrics', failed)

\* The ticker case with e.dirty: compute (the queries of the windows in
\* failed fail), detect, append the trend sample and begin the send.
tickCompute(failed) ==
  \E wins \in {calculateMetrics(initialScan, logEntries, store, failed, now)} :
    tickReport(wins, failed)

\* Engine.runTicker, case <-ticker.C: lock; when dirty compute, detect,
\* append the trend sample and begin the send; else prune and unlock.
TickerTick ==
  /\ tkPc = "select" /\ tickPending /\ mu = "free"
  /\ tickPending' = FALSE
  /\ IF dirty
       THEN tickCompute(QueriesFailing(storeClosed))
       ELSE /\ periodicPrune
            /\ UNCHANGED <<tkPc, tkOut, mu, metrics, histVars, sendsSinceTick>>
  /\ UNCHANGED <<cfgVars, benchVars, now, advances, cancelled, exited, ingVars, fanVars,
                 parVars, insVars, bufVars, dirty, storeClosed, doneClosed,
                 metricsChanClosed, tuiVars, published, insertsSincePub, insertedIds>>

\* The same case while Engine.Stop runs storage.Close(): the Store is closed
\* between two window queries of calculateMetrics, the queries still to
\* come fail (the range over e.windows has no fixed order).
TickerTickStoreClosing ==
  /\ tkPc = "select" /\ tickPending /\ mu = "free"
  /\ dirty /\ ~initialScan
  /\ ~storeClosed /\ ~doneClosed
  /\ tickPending' = FALSE
  /\ storeClosed' = TRUE
  /\ \E failed \in (SUBSET DOMAIN windows) \ {{}, DOMAIN windows} : tickCompute(failed)
  /\ UNCHANGED <<cfgVars, benchVars, now, advances, cancelled, exited, ingVars, fanVars,
                 parVars, insVars, bufVars, dirty, doneClosed,
                 metricsChanClosed, tuiVars, published, insertsSincePub, insertedIds>>

\* The same case while the wall clock is set forward, or the machine wakes
\* from a suspension, between two window queries of calculateMetrics:
\* GetEntriesInWindow reads time.Now() in every query, so the queries still
\* to come (late; the range over e.windows has no fixed order) count back
\* from the later time.
TickerTickClockMoves ==
  /\ tkPc = "select" /\ tickPending /\ mu = "free"
  /\ dirty /\ ~initialScan
  /\ advances < MaxAdvance
  /\ tickPending' = FALSE
  /\ now' = now + pruneInterval + 1
  /\ advances' = advances + 1
  /\ \E late \in (SUBSET DOMAIN windows) \ {{}, DOMAIN windows} :
       \E wins \in {[w \in DOMAIN windows \ QueriesFailing(storeClosed) |->
                      computeWindowedMetrics(
                        GetEntriesInWindow(store, windows[w],
                                           IF w \in late THEN now' ELSE now),
                        windows[w])]} :
         tickReport(wins, QueriesFailing(storeClosed))
  /\ UNCHANGED <<cfgVars, benchVars, cancelled, exited, ingVars, fanVars,
                 parVars, insVars, bufVars, dirty, storeClosed, doneClosed,
                 metricsChanClosed, tuiVars, published, insertsSincePub, insertedIds>>

\* ... e.metricsChan <- e.metrics completes; dirty = false; prune; unlock.
TickerTickPublish ==
  /\ tkPc = "sendTick"
  /\ deliver(tkOut, "tick")
  /\ dirty' = FALSE
  /\ periodicPrune
  /\ tkOut' = NoOut
  /\ mu' = "free"
  /\ tkPc' = "select"
  /\ UNCHANGED <<cfgVars, benchVars, now, advances, tickPending, cancelled, ingVars,
                 fanVars, parVars, insVars, bufVars, metrics, histVars, storeClosed,
                 doneClosed, metricsChanClosed, logs, sendsSinceTick, insertedIds>>

\* Engine.runTicker, default: taken when neither ticker.C nor doneChan is
\* ready.  In live mode: lock; when dirty compute, detect and begin the send.
TickerDefault ==
  /\ tkPc = "select" /\ ~tickPending /\ ~doneClosed
  /\ ~initialScan
  /\ mu = "free" /\ dirty
  /\ tkPc' = "sendDefault"
  /\ mu' = "ticker"
  /\ sendsSinceTick' = sendsSinceTick + 1
  /\ \E wins \in {calculateMetrics(initialScan, logEntries, store, QueriesFailing(storeClosed), now)} :
       LET anoms == metrics.Anomalies
                      \o detectAnomalies(wins, rpsHistory, errorRateHistory, latencyHistory)
       IN /\ metrics' = [metrics EXCEPT !.Windows = wins, !.Anomalies = anoms]
          /\ tkOut' = offer(metrics')
  /\ UNCHANGED <<cfgVars, benchVars, envVars, ingVars, fanVars, parVars, insVars, bufVars, dirty,
                 histVars, storeVars, doneClosed, metricsChanClosed, tuiVars, published,
                 insertsSincePub, insertedIds>>

\* ... e.metricsChan <- e.metrics completes; dirty = false; unlock.
TickerDefaultPublish ==
  /\ tkPc = "sendDefault"
  /\ deliver(tkOut, "default")
  /\ dirty' = FALSE
  /\ tkOut' = NoOut
  /\ mu' = "free"
  /\ tkPc' = "select"
  /\ UNCHANGED <<cfgVars, benchVars, now, advances, tickPending, cancelled, ingVars,
                 fanVars, parVars, insVars, bufVars, metrics, histVars, storeVars,
                 doneClosed, metricsChanClosed, logs, sendsSinceTick, insertedIds>>

\* Engine.runTicker, case <-e.doneChan: return
TickerDone ==
  /\ tkPc = "select" /\ doneClosed
  /\ tkPc' = "done"
  /\ UNCHANGED <<cfgVars, benchVars, envVars, ingVars, fanVars, parVars, insVars, tkOut, mu,
                 engVars, tuiVars, pubVars>>

\* ========================================================= specifications
\* The steps common to both modes of pulsewatch watch.
PipelineStep ==
  \/ FanoutRecvBuffered \/ FanoutUpstreamClosed
  \/ FanoutSendParser \/ FanoutSendTUI \/ FanoutCancelled
  \/ ParserSend \/ ParserFeedClosed
  \/ AddLogEntry
  \/ TickerTick \/ TickerTickPublish
  \/ TickFire \/ Cancel

\* Live tailing (pulsewatch watch [file], or standard input), over a span in
\* which the clock does not leave the minute; LiveSpec below moves the clock.
Next ==
  \/ PipelineStep
  \/ IngestTailLine \/ IngestTailSend \/ IngestTailCancel
  \/ IngestStdinScan \/ IngestStdinEOF \/ IngestStdinCancel
  \/ FanoutRecvUnbuffered
  \/ ProcessLogsClosed
  \/ TickerDefault \/ TickerDefaultPublish

Spec == Init /\ [][Next]_vars

\* One-shot report (pulsewatch watch --initial-scan file); nothing runs once
\* the dashboard has quit and the process has ended.
ScanNext ==
  \/ ~exited /\ IngestScanSend
  \/ ~exited /\ IngestScanCancel
  \/ ~exited /\ IngestScanEOF
  \/ ~exited /\ FanoutRecvBuffered
  \/ ~exited /\ FanoutUpstreamClosed
  \/ ~exited /\ FanoutSendParser
  \/ ~exited /\ FanoutSendTUI
  \/ ~exited /\ FanoutCancelled
  \/ ~exited /\ ParserSend
  \/ ~exited /\ ParserFeedClosed
  \/ ~exited /\ AddLogEntry
  \/ ~exited /\ ProcessLogsReport
  \/ ~exited /\ ProcessLogsPublish
  \/ ~exited /\ TickerTick
  \/ ~exited /\ TickerTickPublish
  \/ ~exited /\ TickFire
  \/ ~exited /\ Cancel

ScanSpec == ScanInit /\ [][ScanNext]_vars

\* Live tailing with a caller of Engine.Stop.
StopNext ==
  \/ Next
  \/ Stop \/ ProcessLogsDone \/ TickerDone
  \/ TickerTickStoreClosing

StopSpec == Init /\ [][StopNext]_vars

\* Live tailing while the wall clock may be moved at any moment, between
\* the window queries of one computation too.
ClockNext == Next \/ Advance \/ TickerTickClockMoves

ClockSpec == Init /\ [][ClockNext]_vars

\* The scheduler runs every goroutine that can take a step, time.Ticker
\* keeps firing and the dashboard keeps receiving.  Nothing is assumed of
\* signals, of the clock or of the writers of the file and of standard input.
Fairness ==
  /\ WF_vars(IngestTailSend) /\ WF_vars(IngestTailCancel) /\ WF_vars(IngestStdinCancel)
  /\ WF_vars(FanoutRecvBuffered) /\ WF_vars(FanoutRecvUnbuffered)
  /\ WF_vars(FanoutUpstreamClosed) /\ WF_vars(FanoutSendParser)
  /\ WF_vars(FanoutSendTUI) /\ WF_vars(FanoutCancelled)
  /\ WF_vars(ParserSend) /\ WF_vars(ParserFeedClosed)
  /\ WF_vars(AddLogEntry) /\ WF_vars(ProcessLogsClosed)
  /\ WF_vars(TickFire) /\ WF_vars(TickerTick) /\ WF_vars(TickerTickPublish)
  /\ WF_vars(TickerDefault) /\ WF_vars(TickerDefaultPublish)

FairSpec == Spec /\ Fairness

\* Live tailing of a file while nobody cancels and the clock moves on: the
\* tick loop and the dashboard keep running, nothing else is assumed to.
LiveInit ==
  /\ initialScan = FALSE
  /\ mode = "file"
  /\ Started

LiveNext ==
  \/ IngestTailLine \/ IngestTailSend
  \/ FanoutRecvBuffered \/ FanoutSendParser \/ FanoutSendTUI
  \/ ParserSend
  \/ AddLogEntry
  \/ TickFire \/ TickerTick \/ TickerTickPublish
  \/ TickerDefault \/ TickerDefaultPublish
  \/ Advance

TickFairness ==
  /\ WF_vars(TickerTick) /\ WF_vars(TickerTickPublish)
  /\ WF_vars(TickerDefault) /\ WF_vars(TickerDefaultPublish)

LiveSpec == LiveInit /\ [][LiveNext]_vars /\ TickFairness

\* ============================= the ticker case on given window metrics
\* The ticker case of Engine.runTicker with the result of calculateMetrics
\* given tick after tick: samples <<RPS, ErrorRate, P95 in ms>>, the same in
\* every window, that change at most once in a run.
TrendSamples == {<<1, 0, 1>>, <<2, 0, 1>>, <<1, 5, 1>>, <<1, 0, 7>>}

TrendInputs ==
  {[before |-> a, after |-> b, at |-> k] :
     a \in TrendSamples, b \in TrendSamples, k \in 0..MaxTicks}

TrendSample == IF ticks < trendInput.at THEN trendInput.before ELSE trendInput.after

TrendWindows(sample) ==
  [w \in DOMAIN windows |->
     [EmptyWindowedMetrics EXCEPT !.RPS = sample[1], !.ErrorRate = sample[2],
                                  !.P95Latency = sample[3], !.TotalRequests = 1]]

TrendInit ==
  /\ initialScan = FALSE /\ mode = "file" /\ source = <<>>
  /\ PipelineStarted /\ NoIngestRun /\ NoRecordRun /\ NoRestartRun
  /\ trendInput \in TrendInputs
  /\ ticks = 0

\* addLogEntry between two ticks: e.dirty = true (the records themselves
\* are behind the given window metrics).
TrendRecord ==
  /\ trendInput # NoTrend
  /\ ~dirty /\ ticks < MaxTicks
  /\ dirty' = TRUE
  /\ UNCHANGED <<cfgVars, benchVars, envVars, ingVars, fanVars, parVars, insVars, tkVars,
                 bufVars, metrics, histVars, storeVars, doneClosed, metricsChanClosed,
                 tuiVars, pubVars>>

\* case <-ticker.C with e.dirty: calculateMetrics, detectAnomalies, append
\* to the histories, copy TrendHistory, send (the dashboard receives),
\* dirty = false.
TrendTick ==
  /\ trendInput # NoTrend
  /\ dirty
  /\ LET wins == TrendWindows(TrendSample)
         anoms == metrics.Anomalies
                    \o detectAnomalies(wins, rpsHistory, errorRateHistory, latencyHistory)
     IN /\ appendHistory(wins, "1m")
        /\ metrics' = [Windows |-> wins, Anomalies |-> anoms,
                       TrendHistory |-> metricsHistory']
        /\ tuiMetrics' = metrics'
  /\ dirty' = FALSE
  /\ ticks' = ticks + 1
  /\ UNCHANGED <<cfgVars, ingester, openSize, fileVars, igVars, chanVars, ctxVars,
                 recVars, runVars, receiving, trendInput, envVars, ingVars, fanVars, parVars, insVars, tkVars, bufVars,
                 storeVars, doneClosed, metricsChanClosed, logs, pubVars>>

TrendNext == TrendRecord \/ TrendTick

TrendSpec == TrendInit /\ [][TrendNext]_vars

\* ============================================ an ingest source on its own
\* The ingest sources of every revision, each run against a reader of the
\* channel it returns. Lines are <<g, i>>: line i of the g-th file at the path.
pipeVars == <<cfgVars, envVars, ingVars, fanVars, parVars, insVars, tkVars, engVars,
              tuiVars, pubVars, trendVars, recVars, runVars, receiving>>

Ingesters == {"poll", "tail", "sync", "replay"}

IngestInit ==
  /\ initialScan = FALSE /\ mode = "file" /\ source = <<>>
  /\ PipelineStarted /\ NoTrendRun /\ NoRecordRun /\ NoRestartRun
  /\ ingester \in Ingesters
  /\ files \in {<<n, 0>> : n \in 0..MaxLines}
  /\ pathGen = 1 /\ openGen = 1 /\ openSize = files[1]
  /\ igPc = CASE ingester = "poll" -> "wait"
              [] ingester = "tail" -> "wait"
              [] ingester = "sync" -> "scan"
              [] ingester = "replay" -> "select"
  /\ currentSize = (IF ingester = "poll" THEN files[1] ELSE 0)
  /\ statSize = 0
  /\ scanPos = (IF ingester = "tail" THEN files[1] ELSE 0)
  /\ heldLine = NoHeld
  /\ returned = (ingester # "sync")
  /\ outChan = <<>> /\ outClosed = FALSE /\ emitted = <<>>
  /\ ctxDone = FALSE /\ emittedAtCancel = 0 /\ consumerAlive = TRUE

\* ---- the surroundings
\* The writer of the log appends a line to the file at the watched path.
AppendLine ==
  /\ ingester \in {"poll", "tail", "sync"}
  /\ files[pathGen] < MaxLines
  /\ files' = [files EXCEPT ![pathGen] = @ + 1]
  /\ UNCHANGED <<pipeVars, ingester, openSize, pathGen, igVars, chanVars, ctxVars>>

\* Log rotation: the watched path is replaced by a new, empty file.
Rotate ==
  /\ ingester \in {"poll", "tail"}
  /\ pathGen = 1
  /\ pathGen' = 2
  /\ UNCHANGED <<pipeVars, ingester, openSize, files, igVars, chanVars, ctxVars>>

CancelCtx ==
  /\ ~ctxDone
  /\ ctxDone' = TRUE
  /\ emittedAtCancel' = Len(emitted)
  /\ UNCHANGED <<pipeVars, ingester, openSize, fileVars, igVars, chanVars, consumerAlive>>

\* The reader (the fan-out of runWatch/runReplay) takes a line ...
Consume ==
  /\ consumerAlive /\ returned /\ outChan # <<>>
  /\ outChan' = Tail(outChan)
  /\ UNCHANGED <<pipeVars, ingester, openSize, fileVars, igVars, outClosed, emitted,
                 ctxVars>>

\* ... and returns from one of its sends on ctx.Done().
ConsumerExit ==
  /\ consumerAlive /\ ctxDone
  /\ consumerAlive' = FALSE
  /\ UNCHANGED <<pipeVars, ingester, openSize, fileVars, igVars, chanVars, ctxDone,
                 emittedAtCancel>>

\* lines <- text on the channel of capacity 1000 (here LinesCap).
sendBuffered(line) ==
  /\ Len(outChan) < LinesCap
  /\ outChan' = Append(outChan, line)
  /\ emitted' = Append(emitted, line)
  /\ UNCHANGED outClosed

\* defer close(lines)
closeOut ==
  /\ outClosed' = TRUE
  /\ igPc' = "done"
  /\ UNCHANGED <<outChan, emitted>>

\* ---- FileIngester.Ingest, polling revision
\* case <-ticker.C: stat, _ := file.Stat(); if stat.Size() > currentSize
\* { file.Seek(currentSize, 0); scanner := bufio.NewScanner(file) ...
PollTick ==
  /\ ingester = "poll" /\ igPc = "wait"
  /\ statSize' = files[openGen]
  /\ IF files[openGen] > currentSize
       THEN scanPos' = currentSize /\ igPc' = "scan"
       ELSE UNCHANGED <<scanPos, igPc>>
  /\ UNCHANGED <<pipeVars, ingester, openSize, fileVars, openGen, currentSize, heldLine,
                 returned, chanVars, ctxVars>>

\* for scanner.Scan(): the scanner reads what the file holds when it reads,
\* to the end of the file; then currentSize = stat.Size().
PollScan ==
  /\ ingester = "poll" /\ igPc = "scan"
  /\ IF scanPos < files[openGen]
       THEN /\ heldLine' = <<openGen, scanPos + 1>>
            /\ scanPos' = scanPos + 1
            /\ igPc' = "send"
            /\ UNCHANGED currentSize
       ELSE /\ currentSize' = statSize
            /\ igPc' = "wait"
            /\ UNCHANGED <<heldLine, scanPos>>
  /\ UNCHANGED <<pipeVars, ingester, openSize, fileVars, openGen, statSize, returned,
                 chanVars, ctxVars>>

\* select { case lines <- scanner.Text():
PollSend ==
  /\ ingester = "poll" /\ igPc = "send"
  /\ sendBuffered(heldLine)
  /\ heldLine' = NoHeld
  /\ igPc' = "scan"
  /\ UNCHANGED <<pipeVars, ingester, openSize, fileVars, openGen, currentSize, statSize,
                 scanPos, returned, ctxVars>>

\* case <-ctx.Done(): return }, in the scan loop or in the outer select.
PollCancel ==
  /\ ingester = "poll" /\ igPc \in {"wait", "send"}
  /\ ctxDone
  /\ closeOut
  /\ UNCHANGED <<pipeVars, ingester, openSize, fileVars, openGen, currentSize, statSize,
                 scanPos, heldLine, returned, ctxVars>>

\* ---- FileIngester.Ingest, tail revision (and the second phase of the
\* synchronous revision)
\* case line := <-t.Lines, with tail.Config{Follow, ReOpen, SeekEnd}: the
\* next line of the file being followed ...
TailLine ==
  /\ ingester \in {"tail", "sync"} /\ igPc = "wait"
  /\ scanPos < files[openGen]
  /\ heldLine' = <<openGen, scanPos + 1>>
  /\ scanPos' = scanPos + 1
  /\ igPc' = "send"
  /\ UNCHANGED <<pipeVars, ingester, openSize, fileVars, openGen, currentSize, statSize,
                 returned, chanVars, ctxVars>>

\* ... ReOpen: at the end of a file that is no longer at the path, the
\* file now at the path is opened and read from its start.
TailReopen ==
  /\ ingester \in {"tail", "sync"} /\ igPc = "wait"
  /\ scanPos = files[openGen] /\ openGen # pathGen
  /\ openGen' = pathGen
  /\ scanPos' = 0
  /\ UNCHANGED <<pipeVars, ingester, openSize, fileVars, igPc, currentSize, statSize,
                 heldLine, returned, chanVars, ctxVars>>

\* lines <- line.Text, a send that does not watch ctx.
TailSend ==
  /\ ingester \in {"tail", "sync"} /\ igPc = "send"
  /\ sendBuffered(heldLine)
  /\ heldLine' = NoHeld
  /\ igPc' = "wait"
  /\ UNCHANGED <<pipeVars, ingester, openSize, fileVars, openGen, currentSize, statSize,
                 scanPos, returned, ctxVars>>

\* case <-ctx.Done(): t.Stop(); return
TailCancel ==
  /\ ingester \in {"tail", "sync"} /\ igPc = "wait"
  /\ ctxDone
  /\ closeOut
  /\ UNCHANGED <<pipeVars, ingester, openSize, fileVars, openGen, currentSize, statSize,
                 scanPos, heldLine, returned, ctxVars>>

\* ---- FileIngester.Ingest, synchronous revision: the initial scan runs in
\* the call itself, before the channel is returned.
\* for scanner.Scan() { select { case lines <- scanner.Text():
SyncScanSend ==
  /\ ingester = "sync" /\ igPc = "scan"
  /\ scanPos < files[openGen]
  /\ sendBuffered(<<openGen, scanPos + 1>>)
  /\ scanPos' = scanPos + 1
  /\ UNCHANGED <<pipeVars, ingester, openSize, fileVars, igPc, openGen, currentSize,
                 statSize, heldLine, returned, ctxVars>>

\* case <-ctx.Done(): return nil, ctx.Err() }
SyncScanCancel ==
  /\ ingester = "sync" /\ igPc = "scan"
  /\ scanPos < files[openGen] /\ ctxDone
  /\ igPc' = "failed"
  /\ returned' = TRUE
  /\ UNCHANGED <<pipeVars, ingester, openSize, fileVars, openGen, currentSize, statSize,
                 scanPos, heldLine, chanVars, ctxVars>>

\* The scanner is at the end: tail.TailFile from SeekEnd, go func, return lines.
SyncScanDone ==
  /\ ingester = "sync" /\ igPc = "scan"
  /\ scanPos = files[openGen]
  /\ openGen' = pathGen
  /\ scanPos' = files[pathGen]
  /\ igPc' = "wait"
  /\ returned' = TRUE
  /\ UNCHANGED <<pipeVars, ingester, openSize, fileVars, currentSize, statSize, heldLine,
                 chanVars, ctxVars>>

\* ---- Replayer.Replay: all lines are read, then sent one by one on an
\* unbuffered channel.
\* A faulty replay loop: the lines are sent last to first.
ReplaySendReversed ==
  /\ ingester = "replay" /\ igPc = "select"
  /\ scanPos < openSize /\ consumerAlive
  /\ emitted' = Append(emitted, <<openGen, openSize - scanPos>>)
  /\ scanPos' = scanPos + 1
  /\ igPc' = "sleep"
  /\ UNCHANGED <<pipeVars, ingester, openSize, fileVars, openGen, currentSize, statSize,
                 heldLine, returned, outChan, outClosed, ctxVars>>

\* select { case outChan <- line: ..., taken by the reader
ReplaySend ==
  /\ ingester = "replay" /\ igPc = "select"
  /\ scanPos < openSize /\ consumerAlive
  /\ emitted' = Append(emitted, <<openGen, scanPos + 1>>)
  /\ scanPos' = scanPos + 1
  /\ igPc' = "sleep"
  /\ UNCHANGED <<pipeVars, ingester, openSize, fileVars, openGen, currentSize, statSize,
                 heldLine, returned, outChan, outClosed, ctxVars>>

\* time.Sleep(delay) is over.
ReplayWake ==
  /\ ingester = "replay" /\ igPc = "sleep"
  /\ igPc' = "select"
  /\ UNCHANGED <<pipeVars, ingester, openSize, fileVars, openGen, currentSize, statSize,
                 scanPos, heldLine, returned, chanVars, ctxVars>>

\* case <-ctx.Done(): return
ReplayCancel ==
  /\ ingester = "replay" /\ igPc = "select"
  /\ scanPos < openSize /\ ctxDone
  /\ closeOut
  /\ UNCHANGED <<pipeVars, ingester, openSize, fileVars, openGen, currentSize, statSize,
                 scanPos, heldLine, returned, ctxVars>>

\* The range over lines is over: deferred close(outChan).
ReplayEnd ==
  /\ ingester = "replay" /\ igPc = "select"
  /\ scanPos = openSize
  /\ closeOut
  /\ UNCHANGED <<pipeVars, ingester, openSize, fileVars, openGen, currentSize, statSize,
                 scanPos, heldLine, returned, ctxVars>>

IngestNext ==
  \/ AppendLine \/ Rotate \/ CancelCtx \/ Consume \/ ConsumerExit
  \/ PollTick \/ PollScan \/ PollSend \/ PollCancel
  \/ TailLine \/ TailReopen \/ TailSend \/ TailCancel
  \/ SyncScanSend \/ SyncScanCancel \/ SyncScanDone
  \/ ReplaySend \/ ReplayWake \/ ReplayCancel \/ ReplayEnd

IngestSpec == IngestInit /\ [][IngestNext]_vars

\* The goroutines of the ingest and its reader are scheduled; the writer of
\* the file, rotation and the signal are not obliged to act.
IngestFairness ==
  /\ WF_vars(Consume)
  /\ WF_vars(PollTick) /\ WF_vars(PollScan) /\ WF_vars(PollSend) /\ WF_vars(PollCancel)
  /\ WF_vars(TailLine) /\ WF_vars(TailReopen) /\ WF_vars(TailSend) /\ WF_vars(TailCancel)
  /\ WF_vars(SyncScanSend) /\ WF_vars(SyncScanCancel) /\ WF_vars(SyncScanDone)
  /\ WF_vars(ReplaySend) /\ WF_vars(ReplayWake) /\ WF_vars(ReplayCancel)
  /\ WF_vars(ReplayEnd)

IngestFairSpec == IngestSpec /\ IngestFairness

\* ================= parser chain, Store and window computation on their own
\* The parser goroutine, Engine.addLogEntry and Engine.calculateMetrics run
\* on lines of every kind the parsers tell apart.
ErrorWordLine == Line("plain", NoTs, 0, 0, "absent", "", "", {"error"}, FALSE)
AccessLine == Line("nginx", NoTs, 404, 0, "absent", "", "/a", {}, FALSE)
WarningLine == Line("json", StartNow - 20, 399, 1000, "string", "warning", "/a", {}, FALSE)
ErrLine == Line("json", NoTs, 400, 0, "string", "Err", "/b", {}, FALSE)
TraceLine == Line("json", NoTs, 600, 500, "string", "trace", "", {}, FALSE)
NumericLevelLine == Line("json", NoTs, 200, 2000, "number", "3", "/a", {}, FALSE)

\* The least latency whose product with time.Millisecond passes the width.
HugeLatencyLine ==
  Line("json", NoTs, 200, ((2 ^ DurationBits) \div Millisecond + 1) * 1000,
       "absent", "", "", {}, FALSE)

RawLines ==
  LineKinds \cup {ErrorWordLine, AccessLine, WarningLine, ErrLine, TraceLine,
                  NumericLevelLine, HugeLatencyLine}

otherVars == <<cfgVars, envVars, ingVars, fanVars, parVars, insVars, tkVars, engVars,
               tuiVars, pubVars, ingester, openSize, fileVars, igVars, chanVars,
               ctxVars, trendVars, runVars, receiving>>

\* The run goes on until the windows are computed.
recRunning == recWindows = NoWindows

RecordInit ==
  /\ initialScan = FALSE /\ mode = "file" /\ source = <<>>
  /\ PipelineStarted /\ NoIngestRun /\ NoTrendRun /\ NoRestartRun
  /\ recInput \in SeqsUpTo(RawLines, MaxLines)
  /\ recNow = StartNow /\ recLines = 0
  /\ recParsed = <<>> /\ recAgain = <<>> /\ recDb = <<>>
  /\ recEntries = NoWindowEntries /\ recWindows = NoWindows

\* The clock moves on.
RecAdvance ==
  /\ recRunning
  /\ recNow < StartNow + MaxAdvance
  /\ recNow' = recNow + 1
  /\ UNCHANGED <<otherVars, recInput, recLines, recParsed, recAgain, recDb,
                 recEntries, recWindows>>

\* for line := range rawLogChanForParser: if entry, ok := multiParser.Parse(line);
\* ok { logEntryChan <- entry }
RecParse ==
  /\ recRunning
  /\ recLines < Len(recInput)
  /\ recLines' = recLines + 1
  /\ recParsed' = IF ParseOk(recInput[recLines'])
                    THEN Append(recParsed, Parse(recLines', recInput[recLines'], recNow))
                    ELSE recParsed
  /\ UNCHANGED <<otherVars, recInput, recNow, recAgain, recDb, recEntries, recWindows>>

\* multiParser.Parse on a line that was parsed before.
RecParseAgain ==
  /\ recRunning
  /\ Len(recAgain) < recLines
  /\ recAgain' = Append(recAgain,
                        Parse(Len(recAgain) + 1, recInput[Len(recAgain) + 1], recNow))
  /\ UNCHANGED <<otherVars, recInput, recNow, recLines, recParsed, recDb, recEntries,
                 recWindows>>

\* Engine.addLogEntry of the next record: storage.InsertLogEntry.
RecInsert ==
  /\ recRunning
  /\ Len(recDb) < Len(recParsed)
  /\ recDb' = InsertLogEntry(recDb, recParsed[Len(recDb) + 1])
  /\ UNCHANGED <<otherVars, recInput, recNow, recLines, recParsed, recAgain, recEntries,
                 recWindows>>

\* Engine.calculateMetrics at any point of the run, in one-shot mode over
\* the recency buffer (the records added so far), in streaming mode over the
\* Store.
RecCalculate ==
  /\ recRunning
  /\ \E scan \in BOOLEAN, buffer \in {SubSeq(recParsed, 1, Len(recDb))} :
       /\ recEntries' = WindowEntries(scan, buffer, recDb, {}, recNow)
       /\ recWindows' = calculateMetrics(scan, buffer, recDb, {}, recNow)
  /\ UNCHANGED <<otherVars, recInput, recNow, recLines, recParsed, recAgain, recDb>>

RecordNext == RecAdvance \/ RecParse \/ RecParseAgain \/ RecInsert \/ RecCalculate

RecordSpec == RecordInit /\ [][RecordNext]_vars

\* ================== the engine started again on the same database file
\* pulsewatch watch run several times in the same directory: NewEngine opens
\* pulsewatch.db (CREATE TABLE IF NOT EXISTS), Start loads, records arrive,
\* the process ends.  Both revisions of loadExistingEntries are run.
MaxRestarts == 2

\* Engine.addLogEntry on the recency buffer and the rows of the Store.
addLogEntry(eng, entry, t) ==
  [buffer |-> prune(Append(eng.buffer, entry), t),
   rows |-> InsertLogEntry(eng.rows, entry)]

\* for _, entry := range entries { e.addLogEntry(entry) }
RECURSIVE addLogEntries(_, _, _)
addLogEntries(eng, entries, t) ==
  IF entries = <<>> THEN eng
  ELSE addLogEntries(addLogEntry(eng, Head(entries), t), Tail(entries), t)

\* Engine.loadExistingEntries: the revision that reads the Store hands every
\* record of the last maxDBAge to addLogEntry; the other one has an empty body.
loadExistingEntries(loads, eng, t) ==
  IF loads THEN addLogEntries(eng, GetLogEntriesSince(eng.rows, t - maxDBAge), t)
  ELSE eng

\* The variables of the pipeline the runs leave alone.
idleVars == <<cfgVars, envVars, ingVars, fanVars, parVars, insVars, tkVars, metrics,
              histVars, storeClosed, lastPrune, doneClosed, metricsChanClosed, tuiVars,
              pubVars, ingester, openSize, fileVars, igVars, chanVars, ctxVars,
              trendVars, recVars, receiving>>

RestartInit ==
  /\ initialScan = FALSE /\ mode = "file" /\ source = <<>>
  /\ PipelineStarted /\ NoIngestRun /\ NoTrendRun /\ NoRecordRun
  /\ loadsOnStart \in BOOLEAN
  /\ runPc = "down" /\ emittedRecords = 0 /\ restarts = 0

\* NewEngine and Engine.Start, up to the start of the two goroutines.
EngineStart ==
  /\ runPc = "down"
  /\ \E eng \in {loadExistingEntries(loadsOnStart, [buffer |-> <<>>, rows |-> store], now)} :
       /\ logEntries' = eng.buffer
       /\ latencies' = RebuildLatencies(eng.buffer)
       /\ store' = eng.rows
       /\ dirty' = (dirty \/ eng.rows # store)
  /\ runPc' = "up"
  /\ UNCHANGED <<idleVars, loadsOnStart, emittedRecords, restarts>>

\* The parser emits a record and the insert loop adds it.
EngineRecord ==
  /\ runPc = "up" /\ emittedRecords < MaxLines
  /\ \E line \in RawLines :
       \E eng \in {addLogEntry([buffer |-> logEntries, rows |-> store],
                               Parse(emittedRecords + 1, line, now), now)} :
         /\ logEntries' = eng.buffer
         /\ latencies' = RebuildLatencies(eng.buffer)
         /\ store' = eng.rows
  /\ dirty' = TRUE
  /\ emittedRecords' = emittedRecords + 1
  /\ UNCHANGED <<idleVars, loadsOnStart, runPc, restarts>>

\* The process ends; the database file stays.
EngineExit ==
  /\ runPc = "up" /\ restarts < MaxRestarts
  /\ runPc' = "down"
  /\ restarts' = restarts + 1
  /\ logEntries' = <<>> /\ latencies' = <<>> /\ dirty' = FALSE
  /\ UNCHANGED <<idleVars, loadsOnStart, emittedRecords, store>>

RestartNext == EngineStart \/ EngineRecord \/ EngineExit

RestartSpec == RestartInit /\ [][RestartNext]_vars

\* ================================================================= claims
PublishedIndex == 1..Len(published)

\* No send on metricsChan is in progress.
NoSendInProgress == tkPc \notin {"sendTick", "sendDefault"} /\ insPc # "send"

\* C1: in streaming mode at most one send on metricsStream happens between
\* two consecutive firings of the ticker: of the sends begun since the last
\* firing, at most one has completed.
C1_AtMostOneSendPerTick == NoSendInProgress => sendsSinceTick <= 1

\* C2: every snapshot received from metricsStream was sent with dirty set
\* and after at least one Insert since the previous send (or since Start),
\* also in one-shot mode and for an empty input.
C2_PublishOnlyWhenDirty ==
  \A k \in PublishedIndex : published[k].dirty /\ published[k].inserts > 0

Persisted(id) == \E i \in 1..Len(store) : store[i].id = id

TimestampOf(id) == (CHOOSE p \in insertedIds : p[1] = id)[2]

\* Snapshot k was computed after record id was inserted, and every window
\* whose horizon covered the record's timestamp at that moment counted it.
ReflectedIn(id, k) ==
  /\ \E p \in published[k].inserted : p[1] = id
  /\ \A w \in DOMAIN windows :
       TimestampOf(id) >= published[k].at - windows[w]
         => w \in DOMAIN published[k].ids /\ id \in published[k].ids[w]

Reflected(id) == \E k \in PublishedIndex : ReflectedIn(id, k)

\* C3: while nobody cancels and the dashboard keeps receiving, every record
\* the engine persisted to the Store is eventually counted by a snapshot
\* published after its Insert, in every window whose horizon covers the
\* record's timestamp.
C3_PersistedEventuallyReflected ==
  \A id \in 1..MaxLines : Persisted(id) ~> Reflected(id)

\* A persisted record that only the 1h horizon covers was published so.
C3_Witness ==
  \E id \in 1..MaxLines : \E k \in PublishedIndex :
    /\ Persisted(id) /\ ReflectedIn(id, k)
    /\ "1h" \in DOMAIN published[k].ids
    /\ id \in published[k].ids["1h"] /\ id \notin published[k].ids["5m"]

\* C4: in one-shot mode exactly one snapshot is published for the whole run:
\* none after the first, and none, in a run nobody has cancelled, before
\* every line of the file has been inserted.
C4_OneSnapshotAfterInput ==
  /\ Len(published) <= 1
  /\ \A k \in PublishedIndex :
       ~published[k].afterCancel
         => Cardinality(published[k].inserted) = Len(source)

\* C5: in one-shot mode, in a run nobody has cancelled, the window "all" of
\* the report sent once the input is consumed counts every record the parser
\* emitted for the file, whatever its timestamp.
C5_AllWindowCountsFullInput ==
  \A k \in PublishedIndex :
    published[k].by = "close" /\ ~published[k].afterCancel =>
      /\ "all" \in DOMAIN published[k].snap.Windows
      /\ published[k].snap.Windows["all"].TotalRequests
           = Cardinality(published[k].inserted)

\* C6: at most one snapshot is published after the cancellation.
C6_OnePostCancelSnapshot ==
  Cardinality({k \in PublishedIndex : published[k].afterCancel}) <= 1

\* C7: once upstream closed the parsed-record stream and the insert loop
\* returned, the tick loop exits, the Store is closed and the metrics stream
\* is closed.
C7_StoppedOnUpstreamClose ==
  (logEntryClosed /\ insPc = "done")
    ~> (tkPc = "done" /\ storeClosed /\ metricsChanClosed)

\* C8: when Stop has returned, the Store is closed, both loops are signalled
\* and metricsStream is closed.
C8_StopClosesMetricsStream ==
  doneClosed => storeClosed /\ metricsChanClosed

IsPrefix(s, t) == Len(s) <= Len(t) /\ SubSeq(t, 1, Len(s)) = s

\* C9: fan-out delivers a line to the parser feed and then to the raw-log
\* feed before it accepts the next one: the parser feed is ahead of the
\* raw-log feed by at most one line, the raw-log feed is a prefix of the
\* parser feed, and a line is accepted only when both feeds are level.
C9_SequentialDelivery ==
  /\ Len(parserDelivered) - Len(rawDelivered) \in {0, 1}
  /\ IsPrefix(rawDelivered, parserDelivered)
  /\ fanPc = "sendParser" => Len(parserDelivered) = Len(rawDelivered)
  /\ fanPc = "sendTUI" => Len(parserDelivered) = Len(rawDelivered) + 1

\* The second line reached the parser feed while only the first reached the
\* raw-log feed.
C9_Witness ==
  /\ Len(parserDelivered) = 2 /\ Len(rawDelivered) = 1
  /\ fanPc = "sendTUI"

\* C10: after a cancellation the fan-out task terminates and has closed the
\* parser feed and the raw-log feed, each exactly once.
C10_FanoutClosesOnCancel ==
  cancelled ~> (fanPc = "done" /\ parserFeedCloses = 1 /\ tuiFeedCloses = 1)

\* The ids of the records the insert loop has received, in the order of
\* receipt: the rows it has inserted, then the record it is adding.
ReceivedIds ==
  [i \in 1..Len(store) |-> store[i].id]
    \o (IF insPc = "add" THEN <<insEntry.id>> ELSE <<>>)

\* The first n lines the ingest emitted: line i of the source is the i-th.
EmittedUpTo(n) == [i \in 1..n |-> i]

\* Nothing is on its way between the ingest and the insert loop or the
\* raw-log stream.
PipelineDrained ==
  /\ ingPc # "send" /\ lines = <<>> /\ fanPc \in {"recv", "done"}
  /\ parPc # "send" /\ insPc # "add"

\* C11: the records received by the insert loop are, one for one and in the
\* same order, the lines the ingest source emitted, and the raw-log stream
\* carries the same lines in the same order: nothing is skipped, duplicated
\* or reordered, each record is the parse of its line, and without
\* cancellation every emitted line has arrived once nothing is in flight.
C11_OrderPreserved ==
  /\ ReceivedIds = EmittedUpTo(Len(ReceivedIds))
  /\ rawDelivered = EmittedUpTo(Len(rawDelivered))
  /\ \A i \in 1..Len(store) :
       /\ store[i].status_code = source[store[i].id].status
       /\ store[i].latency_ms = Milliseconds(source[store[i].id].latency)
  /\ (~cancelled /\ PipelineDrained) =>
       /\ Len(ReceivedIds) = srcPos
       /\ Len(rawDelivered) = srcPos

C11_Witness ==
  /\ ~cancelled /\ PipelineDrained
  /\ srcPos = MaxLines /\ MaxLines > 1
  /\ Len(store) = MaxLines /\ Len(rawDelivered) = MaxLines

\* The lines of file g that the first k emissions carried.
EmittedOf(g, k) == {j \in 1..k : emitted[j][1] = g}

\* The first line of file g that follows the open: the first file was
\* opened at its end, a file put at the path later is new.
FirstAfterOpen(g) == IF g = 1 THEN openSize + 1 ELSE 1

\* C12: follow-mode file ingest emits every line appended after the open
\* exactly once and in file order: the k-th emission is the next line, not
\* yet emitted, of the file it comes from, and no line of an earlier file
\* follows a line of a later one.
C12_FollowExactlyOnceInOrder ==
  ingester \in {"poll", "tail"} =>
    \A k \in 1..Len(emitted) :
      /\ emitted[k][2] = FirstAfterOpen(emitted[k][1])
                           + Cardinality(EmittedOf(emitted[k][1], k - 1))
      /\ \A j \in 1..(k - 1) : emitted[j][1] <= emitted[k][1]

\* C13: in follow mode the ingest reopens on rotation: once the watched
\* path names a new file, every line appended to the new file is eventually
\* emitted (unless the ingest is cancelled first).
C13_ReopensOnRotation ==
  \A i \in 1..MaxLines :
    (ingester \in {"poll", "tail"} /\ pathGen = 2 /\ files[2] >= i)
      ~> (ctxDone \/ \E k \in 1..Len(emitted) : emitted[k] = <<2, i>>)

\* C14: cancellation of an ingest source is prompt: after the cancellation
\* request the file tail and the replay emit at most one more line, and
\* then terminate by closing the output channel.
C14_PromptCancellation ==
  /\ [](ingester \in {"poll", "tail", "replay"} /\ ctxDone
          => Len(emitted) <= emittedAtCancel + 1)
  /\ (ingester \in {"poll", "tail", "replay"} /\ ctxDone) ~> outClosed

\* C15: in initial-scan mode the call that opens the file ingest returns and
\* the scan completes whatever the length of the file: unless cancelled, the
\* ingest eventually has returned its channel, emitted every line the file
\* held at the open and closed the channel.
C15_InitialScanCompletes ==
  ingester = "sync"
    ~> (ctxDone \/ (returned /\ outClosed /\ Len(emitted) >= openSize))

C17_HistoriesAtMostTwenty ==
  /\ Len(metricsHistory) <= 20 /\ Len(rpsHistory) <= 20
  /\ Len(errorRateHistory) <= 20 /\ Len(latencyHistory) <= 20
  /\ Len(metrics.TrendHistory) <= 20
  /\ Len(tuiMetrics.TrendHistory) <= 20

C17_Witness ==
  /\ ticks > 20
  /\ Len(metricsHistory) = 20 /\ Len(rpsHistory) = 20
  /\ Len(tuiMetrics.TrendHistory) = 20
  /\ tuiMetrics.TrendHistory[1] # tuiMetrics.TrendHistory[20]

\* C18: baseline drift is detected: after 20 ticks with RPS sample 1
\* followed by 10 ticks with RPS sample 2, the snapshot after the 30th tick
\* holds a "Baseline Drift" anomaly.
C18_BaselineDriftDetected ==
  (/\ trendInput.before[1] = 1 /\ trendInput.after[1] = 2
   /\ trendInput.at = 20 /\ ticks >= 30)
    => \E i \in 1..Len(metrics.Anomalies) : metrics.Anomalies[i] = "Baseline Drift"

\* |cur - mean| > 3 * s for the Bessel-corrected sample standard deviation
\* s of data, s^2 = (Q - S^2/n) / (n - 1) with S the sum and Q the sum of
\* the squares: (n - 1) * (n*cur - S)^2 > 9 * n * (n*Q - S^2).
BeyondThreeDeviations(data, cur) ==
  LET n == Len(data)
      S == SumSeq(data)
      Q == SumSeq([i \in 1..n |-> data[i] * data[i]])
  IN (n - 1) * (n * cur - S) * (n * cur - S) > 9 * n * (n * Q - S * S)

\* The anomaly kinds a step appends to the engine's snapshot.
AppendedKinds ==
  {metrics'.Anomalies[i] : i \in (Len(metrics.Anomalies) + 1)..Len(metrics'.Anomalies)}

\* C19: at a tick where the 1h window exists, "RPS Anomaly" (and likewise
\* "Error Rate Anomaly", "Latency Anomaly") is appended to the snapshot if and
\* only if the history of the metric holds more than 10 samples and the
\* current 1h value differs from the history mean by more than 3 sample
\* standard deviations; the anomalies already there are kept.
C19_ZScoreAnomalies ==
  [][TrendTick =>
       LET wm == metrics'.Windows["1h"]
       IN /\ "RPS Anomaly" \in AppendedKinds
               <=> (Len(rpsHistory) > 10 /\ BeyondThreeDeviations(rpsHistory, wm.RPS))
          /\ "Error Rate Anomaly" \in AppendedKinds
               <=> (/\ Len(errorRateHistory) > 10
                    /\ BeyondThreeDeviations(errorRateHistory, wm.ErrorRate))
          /\ "Latency Anomaly" \in AppendedKinds
               <=> (/\ Len(latencyHistory) > 10
                    /\ BeyondThreeDeviations(latencyHistory, wm.P95Latency))
          /\ IsPrefix(metrics.Anomalies, metrics'.Anomalies)]_vars

C19_Witness ==
  /\ ticks > 12 /\ Len(rpsHistory) > 12
  /\ \E i \in 1..Len(metrics.Anomalies) : metrics.Anomalies[i] = "Latency Anomaly"
  /\ \E i \in 1..Len(metrics.Anomalies) : metrics.Anomalies[i] = "RPS Anomaly"
  /\ Len(metrics.Anomalies) < ticks

\* C20: for the configured custom metric of type count and every window of
\* a published snapshot, the Custom counter under the metric's name is the
\* number of records of the window whose line matches the metric's filter.
C20_CustomCountMetrics ==
  \A k \in PublishedIndex :
    \A w \in DOMAIN published[k].snap.Windows :
      \A m \in 1..Len(CustomMetricSpecs) :
        CustomMetricSpecs[m].Type = "count" =>
          CustomCount(published[k].snap.Windows[w], CustomMetricSpecs[m].Name)
            = Cardinality({id \in published[k].ids[w] : source[id].matches})

\* The windows of the last computation.
RecWindowKeys == DOMAIN recWindows

\* C21: in every window of a snapshot totalErrors is the number of the
\* window's records with status >= 400 (400 counts, 399 does not), hence
\* totalErrors <= totalRequests and 0 <= errorRate <= 100, and the error
\* rate of an empty window is 0.
C21_ErrorsAreStatusAtLeast400 ==
  \A w \in RecWindowKeys :
    LET es == recEntries[w]
        wm == recWindows[w]
    IN /\ wm.TotalRequests = Len(es)
       /\ wm.TotalErrors = Cardinality({i \in 1..Len(es) : es[i].StatusCode >= 400})
       /\ wm.TotalErrors <= wm.TotalRequests
       /\ wm.ErrorRate >= 0 /\ wm.ErrorRate <= 100 * ErrScale
       /\ (Len(es) = 0 => wm.ErrorRate = 0)

C21_Witness ==
  \E w \in RecWindowKeys :
    /\ \E i \in 1..Len(recEntries[w]) : recEntries[w][i].StatusCode = 399
    /\ \E i \in 1..Len(recEntries[w]) : recEntries[w][i].StatusCode = 400
    /\ recWindows[w].TotalErrors = 1 /\ recWindows[w].TotalRequests = 2
    /\ recWindows[w].ErrorRate = 50 * ErrScale

\* The sum of the counts of a map.
RECURSIVE SumCounts(_, _)
SumCounts(f, keys) ==
  IF keys = {} THEN 0
  ELSE With(CHOOSE k \in keys : TRUE,
            LAMBDA k : f[k] + SumCounts(f, keys \ {k}))

StatusBuckets == {"1xx", "2xx", "3xx", "4xx", "5xx", "Other"}

\* C22: in every window of a snapshot the counts of StatusCodeDistribution,
\* over the buckets 1xx..5xx and Other, add up to totalRequests (a record of
\* status 0 or >= 600 is counted under Other), and the counts of
\* TopEndpoints add up to at most totalRequests.
C22_DistributionSums ==
  \A w \in RecWindowKeys :
    LET es == recEntries[w]
        wm == recWindows[w]
        dist == wm.StatusCodeDistribution
    IN /\ DOMAIN dist \subseteq StatusBuckets
       /\ SumCounts(dist, DOMAIN dist) = wm.TotalRequests
       /\ wm.TotalRequests = Len(es)
       /\ \A i \in 1..Len(es) :
            (es[i].StatusCode < 100 \/ es[i].StatusCode >= 600)
              => ("Other" \in DOMAIN dist /\ dist["Other"] >= 1)
       /\ SumCounts(wm.TopEndpoints, DOMAIN wm.TopEndpoints) <= wm.TotalRequests

C22_Witness ==
  \E w \in RecWindowKeys :
    /\ \E i \in 1..Len(recEntries[w]) : recEntries[w][i].StatusCode = 0
    /\ \E i \in 1..Len(recEntries[w]) : recEntries[w][i].StatusCode >= 600
    /\ DOMAIN recWindows[w].StatusCodeDistribution = {"Other"}
    /\ recWindows[w].StatusCodeDistribution["Other"] = 2
    /\ recWindows[w].TotalRequests = 2
    /\ DOMAIN recWindows[w].TopEndpoints = {}

\* C23: the latency samples of a window are those of its records with
\* status < 400 and latency > 0, a latency of 0 gives no sample, a latency
\* of 1 ms gives the sample 1, and no sample of 0 ms enters a percentile
\* computation, whether the window is read from the Store or from the
\* recency buffer.
C23_LatencySamples ==
  \A w \in RecWindowKeys :
    LET es == recEntries[w]
        samples == WindowLatencies(es)
    IN /\ Len(samples)
            = Cardinality({i \in 1..Len(es) : es[i].StatusCode < 400 /\ es[i].Latency > 0})
       /\ \A k \in 1..Len(samples) : samples[k] >= 1
       /\ (Len(es) = 1 /\ es[1].StatusCode < 400 /\ es[1].Latency = Millisecond)
            => samples = <<1>>

\* A record with its latency cut to whole milliseconds.
Normalized(e) == [e EXCEPT !.Latency = Milliseconds(e.Latency) * Millisecond]

\* C24: after N inserts into the empty Store, the records since time 0 are
\* the N inserted records in the order of insertion, all fields equal and
\* the latency in whole milliseconds, whatever the order of their
\* timestamps.
C24_StoreRoundTrip ==
  GetLogEntriesSince(recDb, 0) = [i \in 1..Len(recDb) |-> Normalized(recParsed[i])]

\* C25: parsing the same line twice with the parser chain, at any two
\* moments, gives equal records.
C25_ParseIdempotent ==
  \A k \in 1..Len(recAgain) : k <= Len(recParsed) => recAgain[k] = recParsed[k]

\* The moments a line can have been parsed at.
ParseTimes == StartNow..(StartNow + MaxAdvance)

\* C26: Parse returns a record for every line, the record of the first
\* parser of the chain (structured object, access log, fallback) that claims
\* the line, so that the parser goroutine forwards exactly one record for
\* every line it receives.
C26_ParseNeverFails ==
  /\ \A i \in 1..recLines : ParseOk(recInput[i])
  /\ Len(recParsed) = recLines
  /\ \A i \in 1..Len(recParsed) :
       /\ recParsed[i].id = i
       /\ \E t \in ParseTimes :
            recParsed[i]
              = (IF JSONParserOk(recInput[i]) THEN JSONParserParse(i, recInput[i], t)
                 ELSE IF NginxParserOk(recInput[i]) THEN NginxParserParse(i, recInput[i], t)
                 ELSE LineParserParse(i, recInput[i], t))

C26_Witness ==
  /\ recLines = 2 /\ Len(recParsed) = 2
  /\ recInput[1].fmt = "plain" /\ recInput[1].words = {}
  /\ recInput[2].fmt = "json"
  /\ recParsed[1].Timestamp = StartNow /\ recParsed[2].StatusCode = recInput[2].status

\* The lines behind the records the parser goroutine forwarded.
LineOf(entry) == recInput[entry.id]

LogLevels == {"INFO", "WARN", "ERROR", "DEBUG", "UNKNOWN"}

\* C27: every record of the parser chain has a level among INFO, WARN,
\* ERROR, DEBUG and UNKNOWN; the level of a structured line comes from its
\* level key without regard to case (warning -> WARN, err -> ERROR, anything
\* unknown -> UNKNOWN), whatever the JSON type of the key's value.
C27_LevelInRange ==
  \A i \in 1..Len(recParsed) :
    /\ recParsed[i].Level \in LogLevels
    /\ (LineOf(recParsed[i]).fmt = "json" /\ LineOf(recParsed[i]).levelKind # "absent") =>
         recParsed[i].Level
           = CASE LineOf(recParsed[i]).level = "warning" -> "WARN"
               [] LineOf(recParsed[i]).level = "Err" -> "ERROR"
               [] OTHER -> "UNKNOWN"

\* C28: a line of the combined access-log pattern that is not an object is
\* claimed by the access-log parser: its record carries the status of the
\* line and the level ERROR when that status is >= 400, INFO otherwise.
C28_AccessLogParsed ==
  \A i \in 1..Len(recParsed) :
    LineOf(recParsed[i]).fmt = "nginx" =>
      /\ recParsed[i].StatusCode = LineOf(recParsed[i]).status
      /\ recParsed[i].Level
           = (IF LineOf(recParsed[i]).status >= 400 THEN "ERROR" ELSE "INFO")

\* The engine's mutable state: recency buffer, latency vector, histories,
\* dirty flag and metrics snapshot.
engineState == <<bufVars, histVars, dirty, metrics>>

\* C29: the engine's mutable state is written only under the engine mutex:
\* while the tick loop holds the mutex, a step that changes that state is a
\* step of the tick loop.
C29_EngineStateUnderMutex ==
  [][(mu = "ticker" /\ engineState' # engineState) => tkPc' # tkPc]_vars

\* C30: metricsChan has one publisher, the tick loop: the insert loop never
\* sends on it, so no snapshot comes from the insert loop and no two sends
\* are pending at the same time.
C30_OnePublisher ==
  /\ \A k \in PublishedIndex : published[k].by # "close"
  /\ ~(insPc = "send" /\ tkPc \in {"sendTick", "sendDefault"})

\* Min of two numbers.
Min(a, b) == IF a < b THEN a ELSE b

\* C31: every snapshot published in streaming mode comes from the full
\* sequence compute, detect, append trend sample, publish, clear dirty: the
\* last point of its TrendHistory is the RPS, P95 latency and error rate of
\* its own 1m window, and the history has grown by one point with every
\* published snapshot, up to maxMetricsHistory.
C31_SnapshotCarriesOwnTrendPoint ==
  \A k \in PublishedIndex :
    LET s == published[k].snap
    IN "1m" \in DOMAIN s.Windows =>
         /\ Len(s.TrendHistory) = Min(k, maxMetricsHistory)
         /\ s.TrendHistory[Len(s.TrendHistory)] = TrendPoint(s.Windows["1m"])

\* C32: after every insert the recency buffer holds exactly the inserted
\* records not older than the widest window (1h), whatever the order of
\* their timestamps, and the latency array is the millisecond latencies of
\* the buffer's records with status < 400 and latency > 0, in buffer order.
C32_BufferPrunedToWidestWindow ==
  /\ {<<logEntries[i].id, logEntries[i].Timestamp>> : i \in 1..Len(logEntries)}
       = {p \in insertedIds : now - p[2] <= Window1h}
  /\ \E ok \in {SelectSeq(logEntries, LAMBDA e : e.StatusCode < 400 /\ e.Latency > 0)} :
       latencies = [i \in 1..Len(ok) |-> ok[i].Latency \div Millisecond]

\* C33: a rejected Store insert is not fatal: the record is still pushed on
\* the recency buffer (and pruned as always), dirty is set, the insert loop
\* goes on to its next receive, and nothing else of the engine changes.
C33_InsertFailureNotFatal ==
  [][(insPc = "add" /\ insPc' # "add" /\ storeClosed) =>
       /\ logEntries' = prune(Append(logEntries, insEntry), now)
       /\ latencies' = RebuildLatencies(logEntries')
       /\ dirty'
       /\ insPc' = "select"
       /\ UNCHANGED <<store, metrics, histVars, lastPrune, doneClosed,
                      metricsChanClosed>>]_vars

C33_Witness ==
  /\ storeClosed /\ insPc = "select" /\ dirty
  /\ \E i \in 1..Len(logEntries) :
       /\ <<logEntries[i].id, logEntries[i].Timestamp>> \in insertedIds
       /\ \A j \in 1..Len(store) : store[j].id # logEntries[i].id

\* C34: a failing Store query stays within its window and its tick: the
\* snapshot of the tick lacks exactly the windows whose query failed, holds
\* every other window computed over the records the Store has for it, and is
\* still published, with dirty cleared.
C34_QueryFailureContained ==
  /\ [](\A k \in PublishedIndex :
          published[k].by = "tick" =>
            /\ DOMAIN published[k].snap.Windows = DOMAIN windows \ published[k].failed
            /\ \A w \in DOMAIN published[k].snap.Windows :
                 /\ published[k].ids[w] =
                      {p[1] : p \in {q \in published[k].inserted :
                                       published[k].at - q[2] <= windows[w]}}
                 /\ published[k].snap.Windows[w].TotalRequests
                      = Cardinality(published[k].ids[w]))
  /\ [][(tkPc = "sendTick" /\ tkPc' # "sendTick") =>
          /\ Len(published') = Len(published) + 1
          /\ published'[Len(published')].snap = metrics
          /\ ~dirty']_vars

C34_Witness ==
  \E k \in PublishedIndex :
    /\ published[k].by = "tick"
    /\ published[k].failed = {"5m"}
    /\ DOMAIN published[k].snap.Windows = {"1m", "1h"}
    /\ published[k].snap.Windows["1h"].TotalRequests = MaxLines
    /\ ~dirty

\* C35: the Store holds exactly the records the parser emitted, one row for
\* each: Start, with its loading of the stored records into the engine,
\* writes nothing, so a restart on an existing database leaves the number of
\* rows as it was and no record is stored twice.
C35_OneRowPerRecord ==
  /\ Len(store) = emittedRecords
  /\ \A i, j \in 1..Len(store) : store[i].id = store[j].id => i = j

\* ============================================ the ticker under steady traffic
\* The insert loop and the ticker case of runTicker with the same line
\* arriving once before every tick, its timestamp the time of arrival.  The
\* ticks are one second apart, so the run stays inside one unit of the clock.
SteadyLines ==
  {Line("json", NoTs, status, latency, "absent", "", "/a", {}, FALSE) :
     status \in {200, 404, 500}, latency \in {0, 2000, 7000}}

SteadyInit ==
  /\ initialScan = FALSE /\ mode = "stdin"
  /\ source \in {[i \in 1..MaxTicks |-> line] : line \in SteadyLines}
  /\ PipelineStarted /\ NoBench

\* The line of this second arrives: Parse and Engine.addLogEntry.
SteadyRecord ==
  /\ ~dirty /\ ticks < MaxTicks
  /\ \E entry \in {Parse(ticks + 1, source[ticks + 1], now)} :
       /\ logEntries' = prune(Append(logEntries, entry), now)
       /\ latencies' = RebuildLatencies(logEntries')
       /\ store' = InsertLogEntry(store, entry)
  /\ dirty' = TRUE
  /\ UNCHANGED <<cfgVars, benchVars, envVars, ingVars, fanVars, parVars, insVars, tkVars,
                 metrics, histVars, storeClosed, lastPrune, doneClosed,
                 metricsChanClosed, tuiVars, pubVars>>

\* case <-ticker.C with e.dirty: calculateMetrics over the Store,
\* detectAnomalies, append to the histories, copy TrendHistory, send (the
\* dashboard receives), dirty = false.
SteadyTick ==
  /\ dirty
  /\ \E wins \in {calculateMetrics(FALSE, logEntries, store, {}, now)} :
       /\ appendHistory(wins, "1m")
       /\ metrics' = [Windows |-> wins,
                      Anomalies |-> metrics.Anomalies
                                      \o detectAnomalies(wins, rpsHistory,
                                                         errorRateHistory, latencyHistory),
                      TrendHistory |-> metricsHistory']
  /\ tuiMetrics' = metrics'
  /\ dirty' = FALSE
  /\ ticks' = ticks + 1
  /\ UNCHANGED <<cfgVars, ingester, openSize, fileVars, igVars, chanVars, ctxVars,
                 recVars, runVars, receiving, trendInput, envVars, ingVars, fanVars, parVars,
                 insVars, tkVars, bufVars, storeVars, doneClosed, metricsChanClosed,
                 logs, pubVars>>

SteadyNext == SteadyRecord \/ SteadyTick

SteadySpec == SteadyInit /\ [][SteadyNext]_vars

\* C36: under a constant arrival rate (the same record once per tick, its
\* timestamp the time of arrival) the engine never reports an "RPS Anomaly".
C36_SteadyTrafficNotFlagged ==
  \A i \in 1..Len(metrics.Anomalies) : metrics.Anomalies[i] # "RPS Anomaly"

\* ==================================== Stop while the subscriber goes away
\* Engine.Start hands metricsChan to its caller; nothing ties the caller's
\* receives to Engine.Stop.  Live tailing of standard input with a caller of
\* Stop and a subscriber that may stop receiving.
Unsubscribe ==
  /\ receiving
  /\ receiving' = FALSE
  /\ UNCHANGED <<cfgVars, envVars, ingVars, fanVars, parVars, insVars, tkVars, engVars,
                 tuiVars, pubVars, ingester, openSize, fileVars, igVars, chanVars,
                 ctxVars, trendVars, recVars, runVars>>

HaltInit ==
  /\ initialScan = FALSE /\ mode = "stdin"
  /\ Started

\* The steps of the pipeline on standard input, of the engine and of a
\* caller of Stop; nobody cancels.
CloseNext ==
  \/ IngestStdinScan \/ IngestStdinEOF
  \/ FanoutRecvUnbuffered \/ FanoutUpstreamClosed
  \/ FanoutSendParser \/ FanoutSendTUI
  \/ ParserSend \/ ParserFeedClosed
  \/ AddLogEntry \/ ProcessLogsClosed \/ ProcessLogsDone
  \/ TickFire \/ TickerTick \/ TickerTickPublish
  \/ TickerDefault \/ TickerDefaultPublish \/ TickerDone
  \/ Stop \/ TickerTickStoreClosing

CloseSpec == HaltInit /\ [][CloseNext]_vars

HaltNext == CloseNext \/ Unsubscribe

\* The scheduler runs every goroutine that can take a step and time.Ticker
\* keeps firing; a send on metricsChan completes when the subscriber
\* receives.  Nothing is assumed of the callers of Stop and of the subscriber.
HaltFairness ==
  /\ WF_vars(FanoutRecvUnbuffered) /\ WF_vars(FanoutUpstreamClosed)
  /\ WF_vars(FanoutSendParser) /\ WF_vars(FanoutSendTUI)
  /\ WF_vars(ParserSend) /\ WF_vars(ParserFeedClosed)
  /\ WF_vars(AddLogEntry) /\ WF_vars(ProcessLogsClosed) /\ WF_vars(ProcessLogsDone)
  /\ WF_vars(TickFire) /\ WF_vars(TickerTick) /\ WF_vars(TickerTickPublish)
  /\ WF_vars(TickerDefault) /\ WF_vars(TickerDefaultPublish) /\ WF_vars(TickerDone)

HaltSpec == HaltInit /\ [][HaltNext]_vars /\ HaltFairness

\* C37: after Stop both engine loops end, also when no subscriber receives
\* from metricsChan: the tick loop does not stay in a send holding e.mu and
\* the insert loop does not stay waiting for e.mu.
C37_LoopsEndAfterStop ==
  doneClosed ~> (tkPc = "done" /\ insPc = "done")

\* With a subscriber that keeps receiving, they do end.
C37_LoopsEndWhileReceiving ==
  (doneClosed /\ receiving) ~> ((tkPc = "done" /\ insPc = "done") \/ ~receiving)

\* C38: the engine invokes no Store operation (insert by addLogEntry, the
\* window queries of calculateMetrics, the retention prune) once Stop has
\* closed the Store, whatever the interleaving of Stop with the two loops.
C38_NoStoreUseAfterClose ==
  [][(\/ insPc = "add" /\ insPc' # "add"
      \/ tkPc = "select" /\ tkPc' \in {"sendTick", "sendDefault"}
      \/ lastPrune' # lastPrune)
       => ~storeClosed]_vars

\* C39: in every streaming snapshot holding the windows 1m, 5m and 1h the
\* totals are nested, requests and errors alike: 1m <= 5m <= 1h, whatever
\* the order of the window queries and although every query reads the clock.
C39_WindowTotalsNested ==
  \A k \in PublishedIndex :
    LET w == published[k].snap.Windows
    IN {"1m", "5m", "1h"} \subseteq DOMAIN w =>
         /\ w["1m"].TotalRequests <= w["5m"].TotalRequests
         /\ w["5m"].TotalRequests <= w["1h"].TotalRequests
         /\ w["1m"].TotalErrors <= w["5m"].TotalErrors
         /\ w["5m"].TotalErrors <= w["1h"].TotalErrors

\* ============================= the dashboard after the raw-log feed closed
\* waitForRawLogs is line := <-m.rawLogsCh without the ok of the receive: on
\* the closed channel it returns the zero value at once, and
\* Model.Update(rawLogMsg) appends it and arms waitForRawLogs again.
MaxClosedReceives == 2

WaitForRawLogsClosed ==
  /\ tuiFeedCloses > 0
  /\ Len(SelectSeq(logs, LAMBDA line : line = NoLine)) < MaxClosedReceives
  /\ appendLog(NoLine)
  /\ UNCHANGED <<cfgVars, benchVars, envVars, ingVars, fanVars, parVars, insVars, tkVars,
                 engVars, tuiMetrics, pubVars>>

DashboardNext == Next \/ WaitForRawLogsClosed

DashboardSpec == Init /\ [][DashboardNext]_vars

\* C40: the dashboard's log buffer holds the lines the fan-out delivered on
\* rawLogChanForTUI and nothing else, in the order of delivery, the last
\* maxLogEntries of them; once that channel is closed nothing more is
\* appended.
C40_LogsAreDeliveredLines ==
  logs = IF Len(rawDelivered) > maxLogEntries
           THEN SubSeq(rawDelivered, Len(rawDelivered) - maxLogEntries + 1,
                       Len(rawDelivered))
           ELSE rawDelivered

====
